---- MODULE Spec2Model ----
(***************************************************************************)
(* IPAM (tuxpeople/python-ipam): networks, hosts and DHCP ranges kept in   *)
(* one relational store and changed by the REST API (ipam/api), the web    *)
(* forms and the importers (ipam/web/routes.py).                           *)
(*                                                                         *)
(* Addresses are AddrBits wide instead of 32 bits: an address is a number  *)
(* in 0..MaxAddr, a prefix length is in 0..AddrBits.  Prefix AddrBits-1    *)
(* plays the part of /31 and prefix AddrBits the part of /32.  The text of *)
(* an address that ipaddress.IPv4Address accepts is canonical (no leading  *)
(* zeros, no blanks), so a stored address text is modelled by its number.  *)
(* None is modelled by 0 where the code tests truthiness (network_id).     *)
(***************************************************************************)
EXTENDS Integers, Sequences, FiniteSets, TLC

\* ---------------------------------------------------------------- bounds
AddrBits == 4
MaxNetworks == 2
MaxHosts == 2
MaxRanges == 2
MaxBatch == 2

RECURSIVE Pow2(_)
Pow2(n) == IF n <= 0 THEN 1 ELSE 2 * Pow2(n - 1)

MaxAddr == Pow2(AddrBits) - 1
Addrs == 0..MaxAddr
Prefixes == 0..AddrBits
NoNet == 0

\* ------------------------------------------------- inputs of the requests
\* What clients submit: two network texts with the same base under /2 (8
\* and 9), each under two prefixes (the last one the /32 analogue), one
\* prefix ipaddress rejects (-1), and two addresses inside 8/2, one of them
\* the single address of 9/32 and the other outside every /32 network.
NetTexts == {8, 9}
NetCidrs == {2, AddrBits, -1}
HostIPs == {9, 10}
\* (start_ip, end_ip) of the range requests: starting at the network address
\* of 8/2, touching at 9, adjacent (8 and 9..10), and inverted
RangeInputs == {<<8, 8>>, <<8, 9>>, <<9, 10>>, <<10, 9>>}
\* (network, cidr) of the network requests that go with the range requests
DhcpNetInputs == {<<8, 2>>, <<8, AddrBits>>, <<9, 2>>}
\* the requests of the address-pool runs: 8/2 with the usable addresses 9 and
\* 10, the /31 and /32 analogues, hosts inside 8/2 and single-address ranges
PoolNetInputs == {<<8, 2>>, <<8, AddrBits - 1>>, <<9, AddrBits>>}
PoolRangeInputs == {<<9, 9>>, <<10, 10>>}
\* a text ipaddress.IPv4Address rejects
BadAddr == -2
NetIds == 1..MaxNetworks
HostIds == 1..MaxHosts
RangeIds == 1..MaxRanges

\* ------------------------------------------------------- ipaddress module
\* ipaddress.IPv4Network(f"{network}/{cidr}", strict=False) raises ValueError
ValidNetwork(network, cidr) == network \in Addrs /\ cidr \in Prefixes

BlockSize(cidr) == Pow2(AddrBits - cidr)

\* Network.network_address: host bits masked off (strict=False)
network_address(network, cidr) == network - (network % BlockSize(cidr))

\* the broadcast address counted from the text as given, host bits kept
broadcast_address_unmasked(network, cidr) == network + BlockSize(cidr) - 1

\* net.broadcast_address
broadcast_address(network, cidr) ==
    network_address(network, cidr) + BlockSize(cidr) - 1

\* ip in net
InNet(ip, network, cidr) ==
    /\ network_address(network, cidr) <= ip
    /\ ip <= broadcast_address(network, cidr)

\* hosts() that leaves out the first and the last address under every prefix
hosts_iter_strict(network, cidr) ==
    LET lo == network - (network % Pow2(AddrBits - cidr))
        hi == lo + Pow2(AddrBits - cidr) - 1
    IN  [i \in 1..(hi - lo - 1) |-> lo + i]

\* net.hosts(): ascending; both addresses of a /31, the one address of a /32
hosts_iter(network, cidr) ==
    LET lo == network_address(network, cidr)
        hi == broadcast_address(network, cidr)
        first == IF cidr >= AddrBits - 1 THEN lo ELSE lo + 1
        last_ == IF cidr >= AddrBits - 1 THEN hi ELSE hi - 1
    IN  [i \in 1..(last_ - first + 1) |-> first + i - 1]

\* ------------------------------------------------------------------ state
VARIABLES networks, hosts, dhcp_ranges, last, requests, backup_files

vars == <<networks, hosts, dhcp_ranges, last, requests, backup_files>>
store == <<networks, hosts, dhcp_ranges>>

\* the files of BACKUP_DIR by name: none, or a copy of the three tables that
\* passes PRAGMA integrity_check (ok) or fails it
BackupNames == {"ipam-backup-1.db", "ipam-backup-2.db"}
Missing == [exists |-> FALSE]
BackupFile(content, ok) == [exists |-> TRUE, content |-> content, ok |-> ok]

\* the Gunicorn workers that serve requests side by side; requests holds what
\* each of them has read so far of the request it is serving
Workers == {1, 2}
Idle == [pc |-> "idle"]

Resp(op, code, msg, arg, out) ==
    [op |-> op, code |-> code, msg |-> msg, arg |-> arg, out |-> out]

Init ==
    /\ requests = [w \in Workers |-> Idle]
    /\ backup_files = [name \in BackupNames |-> Missing]
    /\ networks = {}
    /\ hosts = {}
    /\ dhcp_ranges = {}
    /\ last = Resp("init", 0, "", <<>>, <<>>)

\* ----------------------------------------------------------- persistence
Ids(table) == {r.id : r \in table}

\* INTEGER PRIMARY KEY of SQLite: the largest id in the table plus one
NextId(table) ==
    IF table = {} THEN 1
    ELSE (CHOOSE i \in Ids(table) : \A j \in Ids(table) : j <= i) + 1

Row(table, id) == CHOOSE r \in table : r.id = id

\* Network.query.all(): rows in primary-key order
RECURSIVE InIdOrder(_)
InIdOrder(table) ==
    IF table = {} THEN <<>>
    ELSE LET r == CHOOSE x \in table : \A y \in table : x.id <= y.id
         IN  <<r>> \o InIdOrder(table \ {r})

\* Network.hosts relationship: the hosts whose network_id is the network's id
NetworkHostsRel(id) == {h \in hosts : h.network_id = id}

\* Network.total_hosts
total_hosts(n) == Len(hosts_iter(n.network, n.cidr))

\* Network.used_hosts
used_hosts(n) == Cardinality(NetworkHostsRel(n.id))

\* available_hosts clamped at zero
available_hosts_clamped(n) ==
    IF total_hosts(n) - used_hosts(n) < 0 THEN 0
    ELSE total_hosts(n) - used_hosts(n)

\* Network.available_hosts
available_hosts(n) == total_hosts(n) - used_hosts(n)

\* --------------------------------------------------------------- networks
NetworkRow(id, network, cidr) ==
    [id |-> id, network |-> network, cidr |-> cidr,
     broadcast_address |-> broadcast_address(network, cidr)]

\* a networks table without the UNIQUE constraint
NetworkUniqueViolated_off(table) == FALSE

\* UNIQUE (network) of the networks table
NetworkUniqueViolated(table) ==
    \E a \in table, b \in table : a.id # b.id /\ a.network = b.network

\* a hosts table without the UNIQUE constraint
HostUniqueViolated_off(table) == FALSE

\* UNIQUE (ip_address) of the hosts table
HostUniqueViolated(table) ==
    \E a \in table, b \in table : a.id # b.id /\ a.ip_address = b.ip_address

\* POST /networks
NetworkList_post(network, cidr) ==
    IF ~ValidNetwork(network, cidr)
    THEN /\ last' = Resp("NetworkList_post", 400, "Invalid network address",
                         <<>>, <<>>)
         /\ UNCHANGED store
    ELSE IF \E e \in networks : e.network = network
    THEN /\ last' = Resp("NetworkList_post", 400, "Network already exists",
                         <<>>, <<>>)
         /\ UNCHANGED store
    ELSE LET id == NextId(networks) IN
         /\ id <= MaxNetworks
         /\ networks' = networks \cup {NetworkRow(id, network, cidr)}
         /\ last' = Resp("NetworkList_post", 201, "", <<>>, <<id>>)
         /\ UNCHANGED <<hosts, dhcp_ranges>>

\* a teardown that commits what the session holds
session_teardown_commit(stored, pending) == pending

\* db.session at the end of a request that did not commit: Flask-SQLAlchemy
\* removes the session, and what the handler had assigned is rolled back
session_teardown(stored, pending) == stored

\* PUT /networks/<id>.  The handler assigns broadcast_address before it looks
\* for a duplicate; a request refused there never commits, and the session is
\* discarded with the request.
NetworkResource_put(id, network, cidr) ==
    IF id \notin Ids(networks)
    THEN /\ last' = Resp("NetworkResource_put", 404, "", <<id>>, <<>>)
         /\ UNCHANGED store
    ELSE LET network_obj == Row(networks, id)
             changed == network # network_obj.network \/ cidr # network_obj.cidr
         IN
         IF changed /\ ~ValidNetwork(network, cidr)
         THEN /\ last' = Resp("NetworkResource_put", 400, "Invalid network address",
                              <<id>>, <<>>)
              /\ UNCHANGED store
         ELSE IF changed /\ \E e \in networks : e.network = network /\ e.id # id
         THEN /\ last' = Resp("NetworkResource_put", 400, "Network already exists",
                              <<id>>, <<>>)
              /\ networks' = session_teardown(networks,
                     (networks \ {network_obj}) \cup
                     {[network_obj EXCEPT !.broadcast_address =
                                              broadcast_address(network, cidr)]})
              /\ UNCHANGED <<hosts, dhcp_ranges>>
         ELSE /\ networks' = (networks \ {network_obj}) \cup
                   {[id |-> id, network |-> network, cidr |-> cidr,
                     broadcast_address |->
                         IF changed THEN broadcast_address(network, cidr)
                         ELSE network_obj.broadcast_address]}
              /\ last' = Resp("NetworkResource_put", 200, "", <<id>>, <<id>>)
              /\ UNCHANGED <<hosts, dhcp_ranges>>

\* GET /networks/<id>: out is <<total_hosts, used_hosts, available_hosts>>
NetworkResource_get(id) ==
    /\ UNCHANGED store
    /\ IF id \notin Ids(networks)
       THEN last' = Resp("NetworkResource_get", 404, "", <<id>>, <<>>)
       ELSE LET network_obj == Row(networks, id) IN
            last' = Resp("NetworkResource_get", 200, "", <<id>>,
                         <<total_hosts(network_obj), used_hosts(network_obj),
                           available_hosts(network_obj)>>)

\* What db.session.delete(network) leaves of the network's DHCP ranges: the
\* rows stay and keep their network_id, or the persistence layer removes them.
DhcpRangesAfterNetworkDelete(id) ==
    {dhcp_ranges, {r \in dhcp_ranges : r.network_id # id}}

\* the delete without the assigned-hosts guard
DeleteNetworkBody_noguard(op, id, refused, done) ==
    IF id \notin Ids(networks)
    THEN /\ last' = Resp(op, 404, "", <<id>>, <<>>)
         /\ UNCHANGED store
    ELSE /\ networks' = networks \ {Row(networks, id)}
         /\ hosts' = hosts \ NetworkHostsRel(id)
         /\ dhcp_ranges' \in DhcpRangesAfterNetworkDelete(id)
         /\ last' = Resp(op, done, "", <<id>>, <<>>)

\* the guard and the delete shared by DELETE /networks/<id> and the web form
\* a delete that also refuses a network that still has DHCP ranges
DeleteNetworkBody_rangeguard(op, id, refused, done) ==
    IF id \notin Ids(networks)
    THEN /\ last' = Resp(op, 404, "", <<id>>, <<>>)
         /\ UNCHANGED store
    ELSE IF NetworkHostsRel(id) # {} \/ \E r \in dhcp_ranges : r.network_id = id
    THEN /\ last' = Resp(op, refused, "Cannot delete network with assigned hosts",
                         <<id>>, <<Cardinality(NetworkHostsRel(id))>>)
         /\ UNCHANGED store
    ELSE /\ networks' = networks \ {Row(networks, id)}
         /\ hosts' = hosts \ NetworkHostsRel(id)
         /\ dhcp_ranges' \in DhcpRangesAfterNetworkDelete(id)
         /\ last' = Resp(op, done, "", <<id>>, <<>>)

DeleteNetworkBody(op, id, refused, done) ==
    IF id \notin Ids(networks)
    THEN /\ last' = Resp(op, 404, "", <<id>>, <<>>)
         /\ UNCHANGED store
    ELSE IF NetworkHostsRel(id) # {}
    THEN /\ last' = Resp(op, refused, "Cannot delete network with assigned hosts",
                         <<id>>, <<Cardinality(NetworkHostsRel(id))>>)
         /\ UNCHANGED store
    ELSE /\ networks' = networks \ {Row(networks, id)}
         \* cascade="all, delete-orphan" on Network.hosts: no host is left here
         /\ hosts' = hosts \ NetworkHostsRel(id)
         /\ dhcp_ranges' \in DhcpRangesAfterNetworkDelete(id)
         /\ last' = Resp(op, done, "", <<id>>, <<>>)

\* DELETE /networks/<id>: 400 or 204
NetworkResource_delete(id) ==
    DeleteNetworkBody("NetworkResource_delete", id, 400, 204)

\* POST /delete_network/<id>: a redirect with a flashed message either way
delete_network(id) == DeleteNetworkBody("delete_network", id, 302, 302)

\* POST /add_network (no duplicate check: the UNIQUE constraint decides)
add_network(network, cidr) ==
    IF ~ValidNetwork(network, cidr)
    THEN /\ last' = Resp("add_network", 200, "Invalid network", <<>>, <<>>)
         /\ UNCHANGED store
    ELSE LET id == NextId(networks)
             after == networks \cup {NetworkRow(id, network, cidr)}
         IN
         IF NetworkUniqueViolated(after)
         THEN /\ last' = Resp("add_network", 500, "IntegrityError", <<>>, <<>>)
              /\ UNCHANGED store
         ELSE /\ id <= MaxNetworks
              /\ networks' = after
              /\ last' = Resp("add_network", 302, "", <<>>, <<id>>)
              /\ UNCHANGED <<hosts, dhcp_ranges>>

\* POST /edit_network/<id> (no duplicate check: the UNIQUE constraint decides)
edit_network(id, network, cidr) ==
    IF id \notin Ids(networks)
    THEN /\ last' = Resp("edit_network", 404, "", <<id>>, <<>>)
         /\ UNCHANGED store
    ELSE IF ~ValidNetwork(network, cidr)
    THEN /\ last' = Resp("edit_network", 200, "Invalid network", <<id>>, <<>>)
         /\ UNCHANGED store
    ELSE LET after == (networks \ {Row(networks, id)}) \cup
                          {NetworkRow(id, network, cidr)}
         IN
         IF NetworkUniqueViolated(after)
         THEN /\ last' = Resp("edit_network", 500, "IntegrityError",
                              <<id>>, <<>>)
              /\ UNCHANGED store
         ELSE /\ networks' = after
              /\ last' = Resp("edit_network", 302, "", <<id>>, <<id>>)
              /\ UNCHANGED <<hosts, dhcp_ranges>>

\* ------------------------------------------------------------------ hosts
\* ipaddress.IPv4Address(text) raises ValueError
ValidAddress(ip) == ip \in Addrs

HostRow(id, ip, network_id) ==
    [id |-> id, ip_address |-> ip, network_id |-> network_id]

\* the loop without its break: the last network that contains the address
RECURSIVE DetectLoop_last(_, _, _)
DetectLoop_last(ip, nets, found) ==
    IF nets = <<>> THEN found
    ELSE DetectLoop_last(ip, Tail(nets),
             IF InNet(ip, Head(nets).network, Head(nets).cidr)
             THEN Head(nets).id ELSE found)

\* the auto-detect loop: the first network of Network.query.all() whose
\* block contains the address; found is what network_id holds when no
\* network matches
RECURSIVE DetectLoop(_, _, _)
DetectLoop(ip, nets, found) ==
    IF nets = <<>> THEN found
    ELSE IF InNet(ip, Head(nets).network, Head(nets).cidr) THEN Head(nets).id
    ELSE DetectLoop(ip, Tail(nets), found)

\* no auto-detection: network_id keeps what it held
detect_network_off(ip, found) == found

\* the loop over Network.query.all()
detect_network(ip, found) == DetectLoop(ip, InIdOrder(networks), found)

\* POST /hosts; network_id = NoNet when the field is absent, null or 0
HostList_post(ip, network_id) ==
    IF ~ValidAddress(ip)
    THEN /\ last' = Resp("HostList_post", 400, "Invalid IP address",
                         <<network_id>>, <<>>)
         /\ UNCHANGED store
    ELSE IF \E e \in hosts : e.ip_address = ip
    THEN /\ last' = Resp("HostList_post", 400, "IP address already exists",
                         <<network_id>>, <<>>)
         /\ UNCHANGED store
    ELSE LET id == NextId(hosts)
             nid == IF network_id = NoNet THEN detect_network(ip, network_id)
                    ELSE network_id
         IN
         /\ id <= MaxHosts
         /\ hosts' = hosts \cup {HostRow(id, ip, nid)}
         /\ last' = Resp("HostList_post", 201, "", <<network_id>>, <<id, nid>>)
         /\ UNCHANGED <<networks, dhcp_ranges>>

\* the request of PUT /hosts/<id> carries no network_id field
Absent == -1

\* PUT /hosts/<id>
HostResource_put(id, ip, network_id) ==
    IF id \notin Ids(hosts)
    THEN /\ last' = Resp("HostResource_put", 404, "", <<id, ip, network_id>>, <<>>)
         /\ UNCHANGED store
    ELSE LET host_obj == Row(hosts, id)
             changed == ip # host_obj.ip_address
             given == IF network_id = Absent THEN NoNet ELSE network_id
         IN
         IF changed /\ ~ValidAddress(ip)
         THEN /\ last' = Resp("HostResource_put", 400, "Invalid IP address",
                              <<id, ip, network_id>>, <<>>)
              /\ UNCHANGED store
         ELSE IF changed /\ \E e \in hosts : e.ip_address = ip /\ e.id # id
         THEN /\ last' = Resp("HostResource_put", 400, "IP address already exists",
                              <<id, ip, network_id>>, <<>>)
              /\ UNCHANGED store
         ELSE LET nid == IF changed /\ given = NoNet
                         THEN detect_network(ip, NoNet)
                         ELSE IF network_id = Absent THEN host_obj.network_id
                         ELSE network_id
              IN
              /\ hosts' = (hosts \ {host_obj}) \cup {HostRow(id, ip, nid)}
              /\ last' = Resp("HostResource_put", 200, "",
                              <<id, ip, network_id>>, <<id, nid>>)
              /\ UNCHANGED <<networks, dhcp_ranges>>

\* a delete that takes the other hosts of the same network along
DeleteHostBody_cascade(op, id, done) ==
    IF id \notin Ids(hosts)
    THEN /\ last' = Resp(op, 404, "", <<id>>, <<>>)
         /\ UNCHANGED store
    ELSE /\ hosts' = {h \in hosts : h.network_id # Row(hosts, id).network_id}
         /\ last' = Resp(op, done, "", <<id>>, <<>>)
         /\ UNCHANGED <<networks, dhcp_ranges>>

\* the delete shared by DELETE /hosts/<id> and POST /delete_host/<id>
DeleteHostBody(op, id, done) ==
    IF id \notin Ids(hosts)
    THEN /\ last' = Resp(op, 404, "", <<id>>, <<>>)
         /\ UNCHANGED store
    ELSE /\ hosts' = hosts \ {Row(hosts, id)}
         /\ last' = Resp(op, done, "", <<id>>, <<>>)
         /\ UNCHANGED <<networks, dhcp_ranges>>

\* DELETE /hosts/<id>
HostResource_delete(id) == DeleteHostBody("HostResource_delete", id, 204)

\* POST /delete_host/<id>
delete_host(id) == DeleteHostBody("delete_host", id, 302)

\* HostForm.validate_on_submit: IPAddress() on ip_address, and the network
\* choice is 0 (Auto-detect) or the id of a stored network
HostFormValid(ip, network_id) ==
    ValidAddress(ip) /\ network_id \in {0} \cup Ids(networks)

\* POST /add_host (no duplicate check: the UNIQUE constraint decides)
add_host(ip, network_id) ==
    IF ~HostFormValid(ip, network_id)
    THEN /\ last' = Resp("add_host", 200, "form invalid", <<network_id>>, <<>>)
         /\ UNCHANGED store
    ELSE LET id == NextId(hosts)
             nid == IF network_id = 0 THEN detect_network(ip, NoNet)
                    ELSE network_id
             after == hosts \cup {HostRow(id, ip, nid)}
         IN
         IF HostUniqueViolated(after)
         THEN /\ last' = Resp("add_host", 500, "IntegrityError", <<network_id>>, <<>>)
              /\ UNCHANGED store
         ELSE /\ id <= MaxHosts
              /\ hosts' = after
              /\ last' = Resp("add_host", 302, "", <<network_id>>, <<id, nid>>)
              /\ UNCHANGED <<networks, dhcp_ranges>>

\* POST /edit_host/<id> (no duplicate check: the UNIQUE constraint decides)
edit_host(id, ip, network_id) ==
    IF id \notin Ids(hosts)
    THEN /\ last' = Resp("edit_host", 404, "", <<id>>, <<>>)
         /\ UNCHANGED store
    ELSE IF ~HostFormValid(ip, network_id)
    THEN /\ last' = Resp("edit_host", 200, "form invalid", <<id>>, <<>>)
         /\ UNCHANGED store
    ELSE LET nid == IF network_id = 0 THEN detect_network(ip, NoNet)
                    ELSE network_id
             after == (hosts \ {Row(hosts, id)}) \cup {HostRow(id, ip, nid)}
         IN
         IF HostUniqueViolated(after)
         THEN /\ last' = Resp("edit_host", 500, "IntegrityError",
                              <<id>>, <<>>)
              /\ UNCHANGED store
         ELSE /\ hosts' = after
              /\ last' = Resp("edit_host", 302, "", <<id>>, <<id, nid>>)
              /\ UNCHANGED <<networks, dhcp_ranges>>

\* ---------------------------------------------------------------- import
\* Text that the validators take apart is a sequence of characters.  A JSON
\* value that is no text is a one-element sequence: JsonTrue, JsonFalse,
\* JsonNull (null or an absent key) and JsonNumber (the number 1).
JsonTrue == <<"#true">>
JsonFalse == <<"#false">>
JsonNull == <<"#null">>
JsonNumber == <<"#1">>

\* str.lower() on the characters of the submitted texts
Lower(c) ==
    CASE c = "Y" -> "y"
      [] c = "O" -> "o"
      [] c = "N" -> "n"
      [] c = "T" -> "t"
      [] c = "R" -> "r"
      [] c = "U" -> "u"
      [] c = "E" -> "e"
      [] c = "S" -> "s"
      [] OTHER -> c

str_lower(s) == [i \in 1..Len(s) |-> Lower(s[i])]

RECURSIVE str_lstrip(_)
str_lstrip(s) ==
    IF s # <<>> /\ Head(s) = " " THEN str_lstrip(Tail(s)) ELSE s

RECURSIVE str_rstrip(_)
str_rstrip(s) ==
    IF s # <<>> /\ s[Len(s)] = " " THEN str_rstrip(SubSeq(s, 1, Len(s) - 1))
    ELSE s

\* str.strip()
str_strip(s) == str_rstrip(str_lstrip(s))

\* the two lists the validators compare the lowered text with
TrueTexts == {<<"1">>, <<"t", "r", "u", "e">>, <<"y", "e", "s">>, <<"o", "n">>}
FalseTexts == {<<"0">>, <<"f", "a", "l", "s", "e">>, <<"n", "o">>, <<"o", "f", "f">>}

\* what went wrong with is_assigned
InvalidIsAssigned == <<"#invalid">>

\* the is_assigned branch of the CSV validator: a blank text is falsy
CSVImporter_is_assigned(value) ==
    IF value = <<>> THEN JsonNull
    ELSE IF str_lower(str_strip(value)) \in TrueTexts THEN JsonTrue
    ELSE IF str_lower(str_strip(value)) \in FalseTexts THEN JsonFalse
    ELSE InvalidIsAssigned

\* the is_assigned branch of the JSON validator: only None is unset, a bool
\* passes, a text is compared with the lists, anything else is refused
JSONImporter_is_assigned(value) ==
    IF value = JsonNull THEN JsonNull
    ELSE IF value \in {JsonTrue, JsonFalse} THEN value
    ELSE IF value = JsonNumber THEN InvalidIsAssigned
    ELSE IF str_lower(str_strip(value)) \in TrueTexts THEN JsonTrue
    ELSE IF str_lower(str_strip(value)) \in FalseTexts THEN JsonFalse
    ELSE InvalidIsAssigned

\* A last_seen text is its date-time part followed by its zone suffix, if any
IsoDateTime == "2024-05-01T10:00:00"

\* what went wrong with last_seen
InvalidLastSeen == <<"#invalid">>

\* the last_seen branch: a trailing Z is rewritten to +00:00, then
\* datetime.fromisoformat parses the text or raises ValueError
parse_last_seen(value) ==
    IF value = <<>> \/ value = JsonNull THEN JsonNull
    ELSE LET normalized ==
                 IF value[Len(value)] = "Z"
                 THEN SubSeq(value, 1, Len(value) - 1) \o <<"+00:00">>
                 ELSE value
         IN  IF normalized \in {<<IsoDateTime>>, <<IsoDateTime, "+00:00">>}
             THEN normalized
             ELSE InvalidLastSeen

\* a raw record of import_networks is <<network, cidr, vlan_id>>, one of
\* import_hosts is <<ip_address, is_assigned, last_seen>>; Blank is the empty
\* text of a missing column, NotANumber a text int() refuses
Blank == -3
NotANumber == -5
NoVlan == -4

\* the vlan_id branch: int() of the text, None when it fails
parse_vlan_id(value) ==
    IF value = Blank THEN value
    ELSE IF value = NotANumber THEN NoVlan
    ELSE value

\* the records of the imported files: valid ones, one the parser rejects and
\* one with an is_assigned text the validators refuse
ImportNetInputs == {<<8, 2, Blank>>, <<9, AddrBits, 7>>, <<8, -1, Blank>>}
ImportHostInputs ==
    {<<9, <<>>, <<>>>>, <<10, <<"Y", "e", "s">>, <<>>>>,
     <<9, <<"m", "a", "y", "b", "e">>, <<>>>>}
ImportFormats == {"csv", "json"}

Batches(S) == UNION {[1..n -> S] : n \in 1..MaxBatch}

\* CSVImporter.validate_networks_data: <<valid records, errors>>; a valid
\* record is <<network, cidr, broadcast_address, vlan_id>>, an error is
\* <<row number, message>>
RECURSIVE CSVImporter_validate_networks_data(_, _)
CSVImporter_validate_networks_data(data, i) ==
    IF i > Len(data) THEN <<<<>>, <<>>>>
    ELSE LET rest == CSVImporter_validate_networks_data(data, i + 1)
             network == data[i][1]
             cidr == data[i][2]
             row_num == i + 1
         IN
         IF network = Blank \/ cidr = Blank
         THEN <<rest[1], << <<row_num, "Missing required fields">> >> \o rest[2]>>
         ELSE IF ~ValidNetwork(network, cidr)
         THEN <<rest[1], << <<row_num, "Invalid network format">> >> \o rest[2]>>
         ELSE <<<< <<network, cidr, broadcast_address(network, cidr),
                     parse_vlan_id(data[i][3])>> >> \o rest[1],
                rest[2]>>

\* JSONImporter.validate_networks_data: the same with entry numbers
RECURSIVE JSONImporter_validate_networks_data(_, _)
JSONImporter_validate_networks_data(data, i) ==
    IF i > Len(data) THEN <<<<>>, <<>>>>
    ELSE LET rest == JSONImporter_validate_networks_data(data, i + 1)
             network == data[i][1]
             cidr == data[i][2]
             entry_num == i
         IN
         IF network = Blank \/ cidr = Blank
         THEN <<rest[1], << <<entry_num, "Missing required fields">> >> \o rest[2]>>
         ELSE IF ~ValidNetwork(network, cidr)
         THEN <<rest[1], << <<entry_num, "Invalid network format">> >> \o rest[2]>>
         ELSE <<<< <<network, cidr, broadcast_address(network, cidr),
                     parse_vlan_id(data[i][3])>> >> \o rest[1],
                rest[2]>>

\* the validator that stops at the first record it refuses
RECURSIVE CSVImporter_validate_hosts_data_abort(_, _)
CSVImporter_validate_hosts_data_abort(data, i) ==
    IF i > Len(data) THEN <<<<>>, <<>>>>
    ELSE LET rest == CSVImporter_validate_hosts_data_abort(data, i + 1)
             ip_address == data[i][1]
             is_assigned == CSVImporter_is_assigned(data[i][2])
             last_seen == parse_last_seen(data[i][3])
             row_num == i + 1
         IN
         IF ip_address = Blank
         THEN <<<<>>, << <<row_num, "Missing required field">> >> >>
         ELSE IF ~ValidAddress(ip_address)
         THEN <<<<>>, << <<row_num, "Invalid IP address">> >> >>
         ELSE IF is_assigned = InvalidIsAssigned
         THEN <<<<>>, << <<row_num, "Invalid Is Assigned value">> >> >>
         ELSE IF last_seen = InvalidLastSeen
         THEN <<<<>>, << <<row_num, "Invalid Last Seen timestamp">> >> >>
         ELSE <<<< <<ip_address, is_assigned, last_seen>> >> \o rest[1], rest[2]>>

\* CSVImporter.validate_hosts_data: <<valid records, errors>>; a valid record
\* is <<ip_address, is_assigned, last_seen>> with the two fields normalized
RECURSIVE CSVImporter_validate_hosts_data(_, _)
CSVImporter_validate_hosts_data(data, i) ==
    IF i > Len(data) THEN <<<<>>, <<>>>>
    ELSE LET rest == CSVImporter_validate_hosts_data(data, i + 1)
             ip_address == data[i][1]
             is_assigned == CSVImporter_is_assigned(data[i][2])
             last_seen == parse_last_seen(data[i][3])
             row_num == i + 1
         IN
         IF ip_address = Blank
         THEN <<rest[1], << <<row_num, "Missing required field">> >> \o rest[2]>>
         ELSE IF ~ValidAddress(ip_address)
         THEN <<rest[1], << <<row_num, "Invalid IP address">> >> \o rest[2]>>
         ELSE IF is_assigned = InvalidIsAssigned
         THEN <<rest[1], << <<row_num, "Invalid Is Assigned value">> >> \o rest[2]>>
         ELSE IF last_seen = InvalidLastSeen
         THEN <<rest[1], << <<row_num, "Invalid Last Seen timestamp">> >> \o rest[2]>>
         ELSE <<<< <<ip_address, is_assigned, last_seen>> >> \o rest[1], rest[2]>>

\* JSONImporter.validate_hosts_data: entry numbers and the JSON is_assigned
\* branch
RECURSIVE JSONImporter_validate_hosts_data(_, _)
JSONImporter_validate_hosts_data(data, i) ==
    IF i > Len(data) THEN <<<<>>, <<>>>>
    ELSE LET rest == JSONImporter_validate_hosts_data(data, i + 1)
             ip_address == data[i][1]
             is_assigned == JSONImporter_is_assigned(data[i][2])
             last_seen == parse_last_seen(data[i][3])
             entry_num == i
         IN
         IF ip_address = Blank
         THEN <<rest[1], << <<entry_num, "Missing required field">> >> \o rest[2]>>
         ELSE IF ~ValidAddress(ip_address)
         THEN <<rest[1], << <<entry_num, "Invalid IP address">> >> \o rest[2]>>
         ELSE IF is_assigned = InvalidIsAssigned
         THEN <<rest[1], << <<entry_num, "Invalid Is Assigned value">> >> \o rest[2]>>
         ELSE IF last_seen = InvalidLastSeen
         THEN <<rest[1], << <<entry_num, "Invalid Last Seen timestamp">> >> \o rest[2]>>
         ELSE <<<< <<ip_address, is_assigned, last_seen>> >> \o rest[1], rest[2]>>

\* importer = get_importer(format_type); importer.validate_networks_data
validate_networks_data(format_type, data) ==
    IF format_type = "csv" THEN CSVImporter_validate_networks_data(data, 1)
    ELSE JSONImporter_validate_networks_data(data, 1)

\* importer = get_importer(format_type); importer.validate_hosts_data
validate_hosts_data(format_type, data) ==
    IF format_type = "csv" THEN CSVImporter_validate_hosts_data(data, 1)
    ELSE JSONImporter_validate_hosts_data(data, 1)

\* the loop that counts a record it skips
RECURSIVE create_networks_from_data_countall(_, _, _, _)
create_networks_from_data_countall(networks_data, i, table, imported_count) ==
    IF i > Len(networks_data) THEN <<table, imported_count>>
    ELSE IF \E e \in table : e.network = networks_data[i][1]
    THEN create_networks_from_data_countall(networks_data, i + 1, table,
                                            imported_count + 1)
    ELSE create_networks_from_data_countall(networks_data, i + 1,
             table \cup {[id |-> NextId(table),
                          network |-> networks_data[i][1],
                          cidr |-> networks_data[i][2],
                          broadcast_address |-> networks_data[i][3]]},
             imported_count + 1)

\* the loop of _create_networks_from_data over the validated records; table
\* is the networks table with the rows the session has added so far (the
\* query flushes them); the result is <<table, imported_count>>
RECURSIVE create_networks_from_data(_, _, _, _)
create_networks_from_data(networks_data, i, table, imported_count) ==
    IF i > Len(networks_data) THEN <<table, imported_count>>
    ELSE IF \E e \in table : e.network = networks_data[i][1]
    THEN create_networks_from_data(networks_data, i + 1, table, imported_count)
    ELSE create_networks_from_data(networks_data, i + 1,
             table \cup {[id |-> NextId(table),
                          network |-> networks_data[i][1],
                          cidr |-> networks_data[i][2],
                          broadcast_address |-> networks_data[i][3]]},
             imported_count + 1)

\* the loop of _create_hosts_from_data over the validated records; is_assigned
\* and last_seen of a record are not handed to Host()
RECURSIVE create_hosts_from_data(_, _, _, _)
create_hosts_from_data(hosts_data, i, table, imported_count) ==
    IF i > Len(hosts_data) THEN <<table, imported_count>>
    ELSE IF \E e \in table : e.ip_address = hosts_data[i][1]
    THEN create_hosts_from_data(hosts_data, i + 1, table, imported_count)
    ELSE create_hosts_from_data(hosts_data, i + 1,
             table \cup {HostRow(NextId(table), hosts_data[i][1],
                                 detect_network(hosts_data[i][1], NoNet))},
             imported_count + 1)

\* POST /import with import_type = networks; out is <<imported_count,
\* number of errors>>
import_data_networks(format_type, raw_data) ==
    LET v == validate_networks_data(format_type, raw_data)
        created == create_networks_from_data(v[1], 1, networks, 0)
    IN
    /\ \A n \in created[1] : n.id <= MaxNetworks
    /\ networks' = created[1]
    /\ last' = Resp("import_data_networks", 302, "", <<>>,
                    <<created[2], Len(v[2])>>)
    /\ UNCHANGED <<hosts, dhcp_ranges>>

\* POST /import with import_type = hosts
import_data_hosts(format_type, raw_data) ==
    LET v == validate_hosts_data(format_type, raw_data)
        created == create_hosts_from_data(v[1], 1, hosts, 0)
    IN
    /\ \A h \in created[1] : h.id <= MaxHosts
    /\ hosts' = created[1]
    /\ last' = Resp("import_data_hosts", 302, "", <<>>,
                    <<created[2], Len(v[2])>>)
    /\ UNCHANGED <<networks, dhcp_ranges>>

\* ------------------------------------------------------------ DHCP ranges
RangeRow(id, network_id, start_ip, end_ip, is_active) ==
    [id |-> id, network_id |-> network_id, start_ip |-> start_ip,
     end_ip |-> end_ip, is_active |-> is_active]

\* the query without the filter on exclude_range_id
RangeQuery_noexclude(network_id, exclude_range_id) ==
    InIdOrder({r \in dhcp_ranges : r.network_id = network_id})

\* the rows the overlap loop of _validate_range visits, in id order
RangeQuery(network_id, exclude_range_id) ==
    InIdOrder({r \in dhcp_ranges :
                  /\ r.network_id = network_id
                  /\ (exclude_range_id # 0 => r.id # exclude_range_id)})

\* the overlap loop that only finds a new range lying inside a stored one
RECURSIVE OverlapLoop_inside(_, _, _)
OverlapLoop_inside(rows, start_ip, end_ip) ==
    IF rows = <<>> THEN ""
    ELSE IF Head(rows).start_ip <= start_ip /\ end_ip <= Head(rows).end_ip
    THEN "DHCP range overlaps an existing range"
    ELSE OverlapLoop_inside(Tail(rows), start_ip, end_ip)

\* the overlap loop with touching ranges let through
RECURSIVE OverlapLoop_strict(_, _, _)
OverlapLoop_strict(rows, start_ip, end_ip) ==
    IF rows = <<>> THEN ""
    ELSE IF ~(end_ip <= Head(rows).start_ip \/ start_ip >= Head(rows).end_ip)
    THEN "DHCP range overlaps an existing range"
    ELSE OverlapLoop_strict(Tail(rows), start_ip, end_ip)

\* overlaps = not (end_ip < existing_start or start_ip > existing_end);
\* the message of the first overlapping row, "" when the loop ends
RECURSIVE OverlapLoop(_, _, _)
OverlapLoop(rows, start_ip, end_ip) ==
    IF rows = <<>> THEN ""
    ELSE IF ~(end_ip < Head(rows).start_ip \/ start_ip > Head(rows).end_ip)
    THEN "DHCP range overlaps an existing range"
    ELSE OverlapLoop(Tail(rows), start_ip, end_ip)

\* _validate_range that tests only start_ip against the network
validate_range_startonly(network, start_ip, end_ip, exclude_range_id) ==
    IF ~InNet(start_ip, network.network, network.cidr)
    THEN "DHCP range must be within the selected network"
    ELSE IF start_ip > end_ip
    THEN "Start IP must be less than or equal to End IP"
    ELSE OverlapLoop(RangeQuery(network.id, exclude_range_id), start_ip, end_ip)

\* _validate_range: "" stands for None
validate_range(network, start_ip, end_ip, exclude_range_id) ==
    IF ~InNet(start_ip, network.network, network.cidr)
       \/ ~InNet(end_ip, network.network, network.cidr)
    THEN "DHCP range must be within the selected network"
    ELSE IF start_ip > end_ip
    THEN "Start IP must be less than or equal to End IP"
    ELSE OverlapLoop(RangeQuery(network.id, exclude_range_id), start_ip, end_ip)

\* POST /dhcp-ranges
DhcpRangeList_post(network_id, start_ip, end_ip, is_active) ==
    IF network_id \notin Ids(networks)
    THEN /\ last' = Resp("DhcpRangeList_post", 404, "",
                         <<network_id, start_ip, end_ip>>, <<>>)
         /\ UNCHANGED store
    ELSE IF ~ValidAddress(start_ip) \/ ~ValidAddress(end_ip)
    THEN /\ last' = Resp("DhcpRangeList_post", 400, "Invalid IP address",
                         <<network_id, start_ip, end_ip>>, <<>>)
         /\ UNCHANGED store
    ELSE LET error_message ==
                 validate_range(Row(networks, network_id), start_ip, end_ip, 0)
             id == NextId(dhcp_ranges)
         IN
         IF error_message # ""
         THEN /\ last' = Resp("DhcpRangeList_post", 400, error_message,
                              <<network_id, start_ip, end_ip>>, <<>>)
              /\ UNCHANGED store
         ELSE /\ id <= MaxRanges
              /\ dhcp_ranges' = dhcp_ranges \cup
                     {RangeRow(id, network_id, start_ip, end_ip, is_active)}
              /\ last' = Resp("DhcpRangeList_post", 201, "",
                              <<network_id, start_ip, end_ip>>, <<id>>)
              /\ UNCHANGED <<networks, hosts>>

\* PUT /dhcp-ranges/<id>
DhcpRangeResource_put(id, network_id, start_ip, end_ip, is_active) ==
    IF id \notin Ids(dhcp_ranges) \/ network_id \notin Ids(networks)
    THEN /\ last' = Resp("DhcpRangeResource_put", 404, "", <<id>>, <<>>)
         /\ UNCHANGED store
    ELSE IF ~ValidAddress(start_ip) \/ ~ValidAddress(end_ip)
    THEN /\ last' = Resp("DhcpRangeResource_put", 400, "Invalid IP address",
                         <<id>>, <<>>)
         /\ UNCHANGED store
    ELSE LET error_message ==
                 validate_range(Row(networks, network_id), start_ip, end_ip, id)
         IN
         IF error_message # ""
         THEN /\ last' = Resp("DhcpRangeResource_put", 400, error_message, <<id>>, <<>>)
              /\ UNCHANGED store
         ELSE /\ dhcp_ranges' = (dhcp_ranges \ {Row(dhcp_ranges, id)}) \cup
                     {RangeRow(id, network_id, start_ip, end_ip, is_active)}
              /\ last' = Resp("DhcpRangeResource_put", 200, "", <<id>>, <<id>>)
              /\ UNCHANGED <<networks, hosts>>

\* DELETE /dhcp-ranges/<id>
DhcpRangeResource_delete(id) ==
    IF id \notin Ids(dhcp_ranges)
    THEN /\ last' = Resp("DhcpRangeResource_delete", 404, "", <<id>>, <<>>)
         /\ UNCHANGED store
    ELSE /\ dhcp_ranges' = dhcp_ranges \ {Row(dhcp_ranges, id)}
         /\ last' = Resp("DhcpRangeResource_delete", 204, "", <<id>>, <<>>)
         /\ UNCHANGED <<networks, hosts>>

\* POST /networks/<id>/dhcp-ranges: the same checks, written out in the handler
NetworkDhcpRanges_post(id, start_ip, end_ip, is_active) ==
    IF id \notin Ids(networks)
    THEN /\ last' = Resp("NetworkDhcpRanges_post", 404, "",
                         <<id, start_ip, end_ip>>, <<>>)
         /\ UNCHANGED store
    ELSE IF ~ValidAddress(start_ip) \/ ~ValidAddress(end_ip)
    THEN /\ last' = Resp("NetworkDhcpRanges_post", 400, "Invalid IP address",
                         <<id, start_ip, end_ip>>, <<>>)
         /\ UNCHANGED store
    ELSE LET network_obj == Row(networks, id)
             rid == NextId(dhcp_ranges)
         IN
         IF ~InNet(start_ip, network_obj.network, network_obj.cidr)
            \/ ~InNet(end_ip, network_obj.network, network_obj.cidr)
         THEN /\ last' = Resp("NetworkDhcpRanges_post", 400,
                              "DHCP range must be within the selected network",
                              <<id, start_ip, end_ip>>, <<>>)
              /\ UNCHANGED store
         ELSE IF start_ip > end_ip
         THEN /\ last' = Resp("NetworkDhcpRanges_post", 400,
                              "Start IP must be less than or equal to End IP",
                              <<id, start_ip, end_ip>>, <<>>)
              /\ UNCHANGED store
         ELSE IF \E existing \in dhcp_ranges :
                    /\ existing.network_id = network_obj.id
                    /\ ~(end_ip < existing.start_ip \/ start_ip > existing.end_ip)
         THEN /\ last' = Resp("NetworkDhcpRanges_post", 400,
                              "DHCP range overlaps an existing range",
                              <<id, start_ip, end_ip>>, <<>>)
              /\ UNCHANGED store
         ELSE /\ rid <= MaxRanges
              /\ dhcp_ranges' = dhcp_ranges \cup
                     {RangeRow(rid, id, start_ip, end_ip, is_active)}
              /\ last' = Resp("NetworkDhcpRanges_post", 201, "",
                              <<id, start_ip, end_ip>>, <<rid>>)
              /\ UNCHANGED <<networks, hosts>>

\* ---------------------------------------------------------- IP management
\* _in_active_dhcp_range
in_active_dhcp_range(ip_address, ranges) ==
    \E range_obj \in ranges :
        /\ range_obj.is_active
        /\ range_obj.start_ip <= ip_address
        /\ ip_address <= range_obj.end_ip

\* the addresses of all hosts, whatever their network
used_ips_all(network_id) == {h.ip_address : h \in hosts}

\* used_ips of NextAvailableIP.get and AvailableIPs.get
used_ips(network_id) == {h.ip_address : h \in NetworkHostsRel(network_id)}

\* DhcpRange.query.filter_by(network_id=network_id, is_active=True)
active_ranges(network_id) ==
    {r \in dhcp_ranges : r.network_id = network_id /\ r.is_active}

\* the loop without its DHCP range test
RECURSIVE NextIpLoop_nodhcp(_, _, _)
NextIpLoop_nodhcp(ips, used, ranges) ==
    IF ips = <<>> THEN -1
    ELSE IF Head(ips) \in used THEN NextIpLoop_nodhcp(Tail(ips), used, ranges)
    ELSE Head(ips)

\* the loop of NextAvailableIP.get over net.hosts(): the first address that
\* is kept, -1 when the loop ends
RECURSIVE NextIpLoop(_, _, _)
NextIpLoop(ips, used, ranges) ==
    IF ips = <<>> THEN -1
    ELSE IF Head(ips) \in used THEN NextIpLoop(Tail(ips), used, ranges)
    ELSE IF in_active_dhcp_range(Head(ips), ranges)
    THEN NextIpLoop(Tail(ips), used, ranges)
    ELSE Head(ips)

\* GET /ip/networks/<id>/next-ip
NextAvailableIP_get(network_id) ==
    /\ UNCHANGED store
    /\ IF network_id \notin Ids(networks)
       THEN last' = Resp("NextAvailableIP_get", 404, "", <<network_id>>, <<>>)
       ELSE LET network == Row(networks, network_id)
                ip == NextIpLoop(hosts_iter(network.network, network.cidr),
                                 used_ips(network_id), active_ranges(network_id))
            IN
            IF ip = -1
            THEN last' = Resp("NextAvailableIP_get", 400,
                              "No available IP addresses in this network",
                              <<network_id>>, <<>>)
            ELSE last' = Resp("NextAvailableIP_get", 200, "", <<network_id>>, <<ip>>)

\* the comprehension of AvailableIPs.get over net.hosts(), in order
RECURSIVE AvailableLoop(_, _, _)
AvailableLoop(ips, used, ranges) ==
    IF ips = <<>> THEN <<>>
    ELSE IF Head(ips) \notin used /\ ~in_active_dhcp_range(Head(ips), ranges)
    THEN <<Head(ips)>> \o AvailableLoop(Tail(ips), used, ranges)
    ELSE AvailableLoop(Tail(ips), used, ranges)

\* available[:limit] as Python slices a list: the first limit entries for a
\* limit of zero or more, all but the last -limit entries for a negative one
slice_to(seq, limit) ==
    LET n == IF limit >= 0
             THEN (IF limit < Len(seq) THEN limit ELSE Len(seq))
             ELSE (IF Len(seq) + limit > 0 THEN Len(seq) + limit ELSE 0)
    IN  SubSeq(seq, 1, n)

\* GET /ip/networks/<id>/available-ips; limit = 0 when none is given (a given 0 takes the same path)
AvailableIPs_get(network_id, limit) ==
    /\ UNCHANGED store
    /\ IF network_id \notin Ids(networks)
       THEN last' = Resp("AvailableIPs_get", 404, "", <<network_id, limit>>, <<>>)
       ELSE LET network == Row(networks, network_id)
                available == AvailableLoop(
                                 hosts_iter(network.network, network.cidr),
                                 used_ips(network_id), active_ranges(network_id))
            IN
            last' = Resp("AvailableIPs_get", 200, "", <<network_id, limit>>,
                         IF limit # 0
                         THEN slice_to(available, limit) ELSE available)

\* the walk of IPQuery.get over the stored networks: the first network that
\* holds the address decides between "dhcp" and "available"
RECURSIVE IPQueryLoop(_, _)
IPQueryLoop(ip, nets) ==
    IF nets = <<>> THEN "unmanaged"
    ELSE IF InNet(ip, Head(nets).network, Head(nets).cidr)
    THEN (IF in_active_dhcp_range(ip, {r \in dhcp_ranges :
                                          r.network_id = Head(nets).id})
          THEN "dhcp" ELSE "available")
    ELSE IPQueryLoop(ip, Tail(nets))

\* the status IPQuery.get reports for a valid address
IPQuery_status(ip_address) ==
    IF \E host \in hosts : host.ip_address = ip_address THEN "assigned"
    ELSE IPQueryLoop(ip_address, InIdOrder(networks))

\* GET /ip/<ip_address>
IPQuery_get(ip_address) ==
    /\ UNCHANGED store
    /\ IF ~ValidAddress(ip_address)
       THEN last' = Resp("IPQuery_get", 400, "Invalid IP address",
                         <<ip_address>>, <<>>)
       ELSE last' = Resp("IPQuery_get", 200, IPQuery_status(ip_address),
                         <<ip_address>>, <<>>)

\* ---------------------------------------------------- concurrent requests
\* A handler runs as the statements of its code, and between two statements
\* that reach the database another worker may commit.  A worker that answers
\* is idle again.
Serving(w, rec) == [requests EXCEPT ![w] = rec]
Answer(w) == [requests EXCEPT ![w] = Idle]

\* the ranges of the concurrent requests
RaceRangeInputs == {<<8, 9>>, <<9, 10>>, <<10, 11>>}

\* POST /hosts, the request arrives: ipaddress.IPv4Address on the address
HostList_post_begin(w, ip, network_id) ==
    /\ requests[w] = Idle
    /\ UNCHANGED store
    /\ IF ~ValidAddress(ip)
       THEN /\ last' = Resp("HostList_post", 400, "Invalid IP address",
                            <<network_id>>, <<>>)
            /\ UNCHANGED <<requests, backup_files>>
       ELSE /\ requests' = Serving(w, [pc |-> "check", op |-> "HostList_post",
                                       ip |-> ip, network_id |-> network_id])
            /\ UNCHANGED last

\* POST /hosts, Host.query.filter_by(ip_address=...).first()
HostList_post_check(w) ==
    /\ requests[w].pc = "check"
    /\ requests[w].op = "HostList_post"
    /\ UNCHANGED store
    /\ IF \E e \in hosts : e.ip_address = requests[w].ip
       THEN /\ last' = Resp("HostList_post", 400, "IP address already exists",
                            <<requests[w].network_id>>, <<>>)
            /\ requests' = Answer(w)
       ELSE /\ requests' = Serving(w, [requests[w] EXCEPT !.pc = "detect"])
            /\ UNCHANGED last

\* POST /hosts, the loop over Network.query.all() when no network_id came
HostList_post_detect(w) ==
    /\ requests[w].pc = "detect"
    /\ requests[w].op = "HostList_post"
    /\ UNCHANGED <<store, last>>
    /\ requests' = Serving(w,
           [pc |-> "commit", op |-> "HostList_post", ip |-> requests[w].ip,
            network_id |-> requests[w].network_id,
            nid |-> IF requests[w].network_id = NoNet
                    THEN detect_network(requests[w].ip, requests[w].network_id)
                    ELSE requests[w].network_id])

\* POST /hosts, db.session.add(host_obj); db.session.commit(): the INSERT
\* meets UNIQUE (ip_address), and nothing in the handler catches the
\* IntegrityError
HostList_post_commit(w) ==
    /\ requests[w].pc = "commit"
    /\ requests[w].op = "HostList_post"
    /\ LET id == NextId(hosts)
           after == hosts \cup {HostRow(id, requests[w].ip, requests[w].nid)}
       IN
       IF HostUniqueViolated(after)
       THEN /\ last' = Resp("HostList_post_commit", 500, "IntegrityError",
                            <<requests[w].network_id>>, <<requests[w].ip>>)
            /\ requests' = Answer(w)
            /\ UNCHANGED store
       ELSE /\ id <= MaxHosts
            /\ hosts' = after
            /\ last' = Resp("HostList_post_commit", 201, "",
                            <<requests[w].network_id>>, <<id, requests[w].nid>>)
            /\ requests' = Answer(w)
            /\ UNCHANGED <<networks, dhcp_ranges>>

\* POST /dhcp-ranges, the request arrives: Network.query.get_or_404 and
\* ipaddress.IPv4Address on both ends
DhcpRangeList_post_begin(w, network_id, start_ip, end_ip, is_active) ==
    /\ requests[w] = Idle
    /\ UNCHANGED store
    /\ IF network_id \notin Ids(networks)
       THEN /\ last' = Resp("DhcpRangeList_post", 404, "",
                            <<network_id, start_ip, end_ip>>, <<>>)
            /\ UNCHANGED <<requests, backup_files>>
       ELSE IF ~ValidAddress(start_ip) \/ ~ValidAddress(end_ip)
       THEN /\ last' = Resp("DhcpRangeList_post", 400, "Invalid IP address",
                            <<network_id, start_ip, end_ip>>, <<>>)
            /\ UNCHANGED <<requests, backup_files>>
       ELSE /\ requests' = Serving(w,
                   [pc |-> "validate", op |-> "DhcpRangeList_post", id |-> 0,
                    network |-> Row(networks, network_id),
                    start_ip |-> start_ip, end_ip |-> end_ip,
                    is_active |-> is_active])
            /\ UNCHANGED last

\* PUT /dhcp-ranges/<id>, the request arrives: both get_or_404 and the
\* address parsing
DhcpRangeResource_put_begin(w, id, network_id, start_ip, end_ip, is_active) ==
    /\ requests[w] = Idle
    /\ UNCHANGED store
    /\ IF id \notin Ids(dhcp_ranges) \/ network_id \notin Ids(networks)
       THEN /\ last' = Resp("DhcpRangeResource_put", 404, "", <<id>>, <<>>)
            /\ UNCHANGED <<requests, backup_files>>
       ELSE IF ~ValidAddress(start_ip) \/ ~ValidAddress(end_ip)
       THEN /\ last' = Resp("DhcpRangeResource_put", 400, "Invalid IP address",
                            <<id>>, <<>>)
            /\ UNCHANGED <<requests, backup_files>>
       ELSE /\ requests' = Serving(w,
                   [pc |-> "validate", op |-> "DhcpRangeResource_put", id |-> id,
                    network |-> Row(networks, network_id),
                    start_ip |-> start_ip, end_ip |-> end_ip,
                    is_active |-> is_active])
            /\ UNCHANGED last

\* _validate_range as both handlers call it: the query runs now
Range_validate(w) ==
    /\ requests[w].pc = "validate"
    /\ UNCHANGED store
    /\ LET r == requests[w]
           error_message == validate_range(r.network, r.start_ip, r.end_ip, r.id)
       IN
       IF error_message # ""
       THEN /\ last' = Resp(r.op, 400, error_message,
                            <<r.network.id, r.start_ip, r.end_ip>>, <<>>)
            /\ requests' = Answer(w)
       ELSE /\ requests' = Serving(w, [r EXCEPT !.pc = "commit"])
            /\ UNCHANGED last

\* POST /dhcp-ranges, db.session.add(range_obj); db.session.commit(): no
\* constraint of the dhcp_ranges table looks at the other rows
DhcpRangeList_post_commit(w) ==
    /\ requests[w].pc = "commit"
    /\ requests[w].op = "DhcpRangeList_post"
    /\ LET r == requests[w]
           id == NextId(dhcp_ranges)
       IN
       /\ id <= MaxRanges
       /\ dhcp_ranges' = dhcp_ranges \cup
              {RangeRow(id, r.network.id, r.start_ip, r.end_ip, r.is_active)}
       /\ last' = Resp("DhcpRangeList_post_commit", 201, "",
                       <<r.network.id, r.start_ip, r.end_ip>>, <<id>>)
       /\ requests' = Answer(w)
       /\ UNCHANGED <<networks, hosts>>

\* PUT /dhcp-ranges/<id>, the assignments and db.session.commit()
DhcpRangeResource_put_commit(w) ==
    /\ requests[w].pc = "commit"
    /\ requests[w].op = "DhcpRangeResource_put"
    /\ LET r == requests[w] IN
       /\ dhcp_ranges' = (dhcp_ranges \ {Row(dhcp_ranges, r.id)}) \cup
              {RangeRow(r.id, r.network.id, r.start_ip, r.end_ip, r.is_active)}
       /\ last' = Resp("DhcpRangeResource_put_commit", 200, "",
                       <<r.network.id, r.start_ip, r.end_ip>>, <<r.id>>)
       /\ requests' = Answer(w)
       /\ UNCHANGED <<networks, hosts>>

\* ------------------------------------------------------ backup and restore
\* _resolve_backup_path: a name that leaves BACKUP_DIR raises ValueError
resolve_backup_path(name) == name # "../ipam.db"

\* os.path.exists(backup_path)
backup_exists(name) == name \in BackupNames /\ backup_files[name].exists

\* an integrity check that passes every file
integrity_check_off(file) == TRUE

\* _integrity_check: PRAGMA integrity_check answers "ok"
integrity_check(file) == file.ok

\* source.backup(dest) of sqlite3: dest becomes a copy of source
sqlite_backup(source, dest) == source

\* create_backup; name is _backup_name(), the UTC time to the second, so two
\* backups of one second share their file.  The result carries integrity_ok.
create_backup(name) ==
    /\ backup_files' = [backup_files EXCEPT ![name] =
           BackupFile(sqlite_backup(store, backup_files[name]), TRUE)]
    /\ last' = Resp("create_backup", 201, "", <<name>>,
                    <<integrity_check(backup_files'[name])>>)
    /\ UNCHANGED <<store, requests>>

\* a backup file that went bad on disk: what it holds is no longer the copy
backup_file_damaged(name) ==
    /\ backup_exists(name)
    /\ backup_files[name].ok
    /\ backup_files' = [backup_files EXCEPT ![name] =
           BackupFile(<<{}, {}, {}>>, FALSE)]
    /\ last' = Resp("backup_file_damaged", 0, "", <<name>>, <<>>)
    /\ UNCHANGED <<store, requests>>

\* restore_backup, as POST /backups/<name>/restore answers it
restore_backup(name) ==
    /\ UNCHANGED <<requests, backup_files>>
    /\ IF ~resolve_backup_path(name)
       THEN /\ last' = Resp("restore_backup", 400, "Invalid backup name.",
                            <<name>>, <<>>)
            /\ UNCHANGED store
       ELSE IF ~backup_exists(name)
       THEN /\ last' = Resp("restore_backup", 400, "Backup file not found.",
                            <<name>>, <<>>)
            /\ UNCHANGED store
       ELSE IF ~integrity_check(backup_files[name])
       THEN /\ last' = Resp("restore_backup", 400,
                            "Backup integrity check failed.", <<name>>, <<>>)
            /\ UNCHANGED store
       ELSE LET restored == sqlite_backup(backup_files[name].content, store) IN
            /\ networks' = restored[1]
            /\ hosts' = restored[2]
            /\ dhcp_ranges' = restored[3]
            /\ last' = Resp("restore_backup", 200, "", <<name>>, <<TRUE>>)

\* ------------------------------------------------------ container startup
DEFAULT_GUNICORN_ARGS ==
    <<"gunicorn", "--bind", "0.0.0.0:5000", "--workers", "4", "--timeout",
      "120", "app:app">>

\* IPAM_RUN_MIGRATIONS is not in the environment
Unset == <<"#unset">>

\* the environments main is started with
EnvInputs ==
    {Unset, <<>>, <<"1">>, <<"0">>, <<"t", "r", "u", "e">>,
     <<"T", "R", "U", "E">>, <<" ", "T", "r", "u", "e", " ">>,
     <<"y", "e", "s">>, <<"Y", "E", "S">>, <<"o", "n">>, <<" ", "O", "n">>,
     <<"f", "a", "l", "s", "e">>, <<"n", "o">>, <<"o", "f", "f">>,
     <<"t", " ", "r", "u", "e">>, <<" ">>}

\* should_run_migrations with False as the default
should_run_migrations_default_off(env) ==
    env # Unset /\ str_lower(str_strip(env)) \in TrueTexts

\* should_run_migrations: env.get("IPAM_RUN_MIGRATIONS", "true"), stripped
\* and lowered, is one of 1, true, yes, on
should_run_migrations(env) ==
    LET value == IF env = Unset THEN <<"t", "r", "u", "e">> ELSE env
    IN  str_lower(str_strip(value)) \in TrueTexts

\* build_gunicorn_args
build_gunicorn_args(argv) == IF argv # <<>> THEN argv ELSE DEFAULT_GUNICORN_ARGS

\* main, statement by statement.  last.arg is <<env, argv>>, last.out is the
\* list of the calls made so far; run_migrations returns (an exception of
\* upgrade() would end the process there).
main_should_run_migrations ==
    /\ last.op = "main"
    /\ last' = Resp(IF should_run_migrations(last.arg[1])
                    THEN "main_run_migrations" ELSE "main_build_gunicorn_args",
                    0, "", last.arg, last.out)
    /\ UNCHANGED <<store, requests, backup_files>>

main_run_migrations ==
    /\ last.op = "main_run_migrations"
    /\ last' = Resp("main_build_gunicorn_args", 0, "", last.arg,
                    Append(last.out, <<"run_migrations">>))
    /\ UNCHANGED <<store, requests, backup_files>>

main_build_gunicorn_args ==
    /\ last.op = "main_build_gunicorn_args"
    /\ last' = Resp("main_exec_fn", 0, "", last.arg, last.out)
    /\ UNCHANGED <<store, requests, backup_files>>

main_exec_fn ==
    /\ last.op = "main_exec_fn"
    /\ LET args == build_gunicorn_args(last.arg[2]) IN
       last' = Resp("main_done", 0, "", last.arg,
                    Append(last.out, <<"exec_fn", args[1], args>>))
    /\ UNCHANGED <<store, requests, backup_files>>

\* ------------------------------------------------------- specifications
NetworkOps ==
    \/ \E network \in NetTexts, cidr \in NetCidrs : NetworkList_post(network, cidr)
           /\ UNCHANGED <<requests, backup_files>>
    \/ \E id \in NetIds, network \in NetTexts, cidr \in NetCidrs :
           NetworkResource_put(id, network, cidr)
           /\ UNCHANGED <<requests, backup_files>>
    \/ \E id \in NetIds : NetworkResource_get(id)
           /\ UNCHANGED <<requests, backup_files>>
    \/ \E id \in NetIds : NetworkResource_delete(id)
           /\ UNCHANGED <<requests, backup_files>>
    \/ \E id \in NetIds : delete_network(id)
           /\ UNCHANGED <<requests, backup_files>>
    \/ \E network \in NetTexts, cidr \in NetCidrs : add_network(network, cidr)
           /\ UNCHANGED <<requests, backup_files>>
    \/ \E id \in NetIds, network \in NetTexts, cidr \in NetCidrs :
           edit_network(id, network, cidr)
           /\ UNCHANGED <<requests, backup_files>>

HostOps ==
    \/ \E ip \in HostIPs \cup {BadAddr}, nid \in {NoNet} \cup NetIds :
           HostList_post(ip, nid)
           /\ UNCHANGED <<requests, backup_files>>
    \/ \E id \in HostIds, ip \in HostIPs \cup {BadAddr},
          nid \in {Absent, NoNet} \cup NetIds : HostResource_put(id, ip, nid)
           /\ UNCHANGED <<requests, backup_files>>
    \/ \E id \in HostIds : HostResource_delete(id)
           /\ UNCHANGED <<requests, backup_files>>
    \/ \E id \in HostIds : delete_host(id)
           /\ UNCHANGED <<requests, backup_files>>
    \/ \E ip \in HostIPs \cup {BadAddr}, nid \in {0} \cup NetIds : add_host(ip, nid)
           /\ UNCHANGED <<requests, backup_files>>
    \/ \E id \in HostIds, ip \in HostIPs \cup {BadAddr}, nid \in {0} \cup NetIds :
           edit_host(id, ip, nid)
           /\ UNCHANGED <<requests, backup_files>>

RangeOps ==
    \/ \E nid \in NetIds, r \in RangeInputs, a \in BOOLEAN :
           DhcpRangeList_post(nid, r[1], r[2], a)
           /\ UNCHANGED <<requests, backup_files>>
    \/ \E id \in RangeIds, nid \in NetIds, r \in RangeInputs, a \in BOOLEAN :
           DhcpRangeResource_put(id, nid, r[1], r[2], a)
           /\ UNCHANGED <<requests, backup_files>>
    \/ \E id \in RangeIds : DhcpRangeResource_delete(id)
           /\ UNCHANGED <<requests, backup_files>>
    \/ \E nid \in NetIds, r \in RangeInputs, a \in BOOLEAN :
           NetworkDhcpRanges_post(nid, r[1], r[2], a)
           /\ UNCHANGED <<requests, backup_files>>

DhcpNetworkOps ==
    \/ \E n \in DhcpNetInputs : NetworkList_post(n[1], n[2])
           /\ UNCHANGED <<requests, backup_files>>
    \/ \E id \in NetIds, n \in DhcpNetInputs : NetworkResource_put(id, n[1], n[2])
           /\ UNCHANGED <<requests, backup_files>>
    \/ \E id \in NetIds : NetworkResource_delete(id)
           /\ UNCHANGED <<requests, backup_files>>

ImportOps ==
    \/ \E format_type \in ImportFormats, raw_data \in Batches(ImportNetInputs) :
           import_data_networks(format_type, raw_data)
           /\ UNCHANGED <<requests, backup_files>>
    \/ \E format_type \in ImportFormats, raw_data \in Batches(ImportHostInputs) :
           import_data_hosts(format_type, raw_data)
           /\ UNCHANGED <<requests, backup_files>>

\* networks and hosts
Next == NetworkOps \/ HostOps \/ ImportOps

Spec == Init /\ [][Next]_vars

\* networks and DHCP ranges
NextDhcp == DhcpNetworkOps \/ RangeOps

SpecDhcp == Init /\ [][NextDhcp]_vars

\* the address pool: networks, hosts, DHCP ranges and the next-ip query
NextPool ==
    \/ \E n \in PoolNetInputs : NetworkList_post(n[1], n[2])
           /\ UNCHANGED <<requests, backup_files>>
    \/ \E id \in NetIds, n \in PoolNetInputs : NetworkResource_put(id, n[1], n[2])
           /\ UNCHANGED <<requests, backup_files>>
    \/ \E ip \in HostIPs, nid \in {NoNet} \cup NetIds : HostList_post(ip, nid)
           /\ UNCHANGED <<requests, backup_files>>
    \/ \E nid \in NetIds, r \in PoolRangeInputs, a \in BOOLEAN :
           DhcpRangeList_post(nid, r[1], r[2], a)
           /\ UNCHANGED <<requests, backup_files>>
    \/ \E nid \in NetIds : NextAvailableIP_get(nid)
           /\ UNCHANGED <<requests, backup_files>>
    \/ \E nid \in NetIds, limit \in {0, 1} : AvailableIPs_get(nid, limit)
           /\ UNCHANGED <<requests, backup_files>>

SpecPool == Init /\ [][NextPool]_vars

\* allocation: next-ip and available-ips, then the creation of a host and the
\* query of an address. The limits sent to available-ips are none (0), a
\* count, and a negative number, which the handler passes to the slice
\* unvalidated; the addresses asked of GET /ip/<address> are the host
\* addresses, one outside every network of PoolNetInputs, and a text that is
\* no address.
NextAllocation ==
    \/ \E n \in PoolNetInputs : NetworkList_post(n[1], n[2])
           /\ UNCHANGED <<requests, backup_files>>
    \/ \E ip \in HostIPs, nid \in {NoNet} \cup NetIds : HostList_post(ip, nid)
           /\ UNCHANGED <<requests, backup_files>>
    \/ \E nid \in NetIds, r \in PoolRangeInputs, a \in BOOLEAN :
           DhcpRangeList_post(nid, r[1], r[2], a)
           /\ UNCHANGED <<requests, backup_files>>
    \/ \E nid \in NetIds : NextAvailableIP_get(nid)
           /\ UNCHANGED <<requests, backup_files>>
    \/ \E nid \in NetIds, limit \in {-1, 0, 1, 2} : AvailableIPs_get(nid, limit)
           /\ UNCHANGED <<requests, backup_files>>
    \/ \E ip \in HostIPs \cup {3, BadAddr} : IPQuery_get(ip)
           /\ UNCHANGED <<requests, backup_files>>

SpecAllocation == Init /\ [][NextAllocation]_vars

\* network deletes (REST and web form) over networks with hosts and ranges
NextNetworkDelete ==
    \/ \E n \in PoolNetInputs : NetworkList_post(n[1], n[2])
           /\ UNCHANGED <<requests, backup_files>>
    \/ \E ip \in HostIPs : HostList_post(ip, NoNet)
           /\ UNCHANGED <<requests, backup_files>>
    \/ \E nid \in NetIds, r \in {<<9, 9>>, <<9, 10>>}, a \in BOOLEAN :
           DhcpRangeList_post(nid, r[1], r[2], a)
           /\ UNCHANGED <<requests, backup_files>>
    \/ \E id \in NetIds : NetworkResource_delete(id)
           /\ UNCHANGED <<requests, backup_files>>
    \/ \E id \in NetIds : delete_network(id)
           /\ UNCHANGED <<requests, backup_files>>

SpecNetworkDelete == Init /\ [][NextNetworkDelete]_vars

\* host deletes next to networks, hosts and DHCP ranges
NextHostDelete ==
    \/ \E n \in PoolNetInputs : NetworkList_post(n[1], n[2])
           /\ UNCHANGED <<requests, backup_files>>
    \/ \E ip \in HostIPs, nid \in {NoNet} \cup NetIds : HostList_post(ip, nid)
           /\ UNCHANGED <<requests, backup_files>>
    \/ \E nid \in NetIds, r \in PoolRangeInputs, a \in BOOLEAN :
           DhcpRangeList_post(nid, r[1], r[2], a)
           /\ UNCHANGED <<requests, backup_files>>
    \/ \E id \in HostIds : HostResource_delete(id)
           /\ UNCHANGED <<requests, backup_files>>
    \/ \E id \in HostIds : delete_host(id)
           /\ UNCHANGED <<requests, backup_files>>

SpecHostDelete == Init /\ [][NextHostDelete]_vars

\* two workers creating hosts side by side, next to network creates and
\* host deletes
NextHostRace ==
    \/ \E n \in PoolNetInputs : NetworkList_post(n[1], n[2])
           /\ UNCHANGED <<requests, backup_files>>
    \/ \E id \in HostIds : HostResource_delete(id)
           /\ UNCHANGED <<requests, backup_files>>
    \/ \E w \in Workers, ip \in HostIPs \cup {BadAddr},
          nid \in {NoNet} \cup NetIds : HostList_post_begin(w, ip, nid)
           /\ UNCHANGED backup_files
    \/ \E w \in Workers : HostList_post_check(w)
           /\ UNCHANGED backup_files
    \/ \E w \in Workers : HostList_post_detect(w)
           /\ UNCHANGED backup_files
    \/ \E w \in Workers : HostList_post_commit(w)
           /\ UNCHANGED backup_files

SpecHostRace == Init /\ [][NextHostRace]_vars

\* the network 8/2 of the concurrent range requests
InitRangeRace ==
    /\ networks = {NetworkRow(1, 8, 2)}
    /\ hosts = {}
    /\ dhcp_ranges = {}
    /\ last = Resp("init", 0, "", <<>>, <<>>)
    /\ requests = [w \in Workers |-> Idle]
    /\ backup_files = [name \in BackupNames |-> Missing]

\* two workers creating and updating DHCP ranges side by side
NextRangeRace ==
    \/ \E w \in Workers, nid \in NetIds, r \in RaceRangeInputs, a \in BOOLEAN :
           DhcpRangeList_post_begin(w, nid, r[1], r[2], a)
           /\ UNCHANGED backup_files
    \/ \E w \in Workers, id \in RangeIds, nid \in NetIds, r \in RaceRangeInputs,
          a \in BOOLEAN : DhcpRangeResource_put_begin(w, id, nid, r[1], r[2], a)
           /\ UNCHANGED backup_files
    \/ \E w \in Workers : Range_validate(w)
           /\ UNCHANGED backup_files
    \/ \E w \in Workers : DhcpRangeList_post_commit(w)
           /\ UNCHANGED backup_files
    \/ \E w \in Workers : DhcpRangeResource_put_commit(w)
           /\ UNCHANGED backup_files

SpecRangeRace == InitRangeRace /\ [][NextRangeRace]_vars

\* the writes of the REST API to networks, hosts and DHCP ranges, with
\* requests that are refused: an address or prefix ipaddress rejects, a range
\* that is inverted or leaves its network
WriteRangeInputs == {<<9, 9>>, <<9, 10>>, <<10, 9>>, <<10, 12>>}
NextWrites ==
    \/ \E n \in PoolNetInputs \cup {<<8, -1>>} : NetworkList_post(n[1], n[2])
           /\ UNCHANGED <<requests, backup_files>>
    \/ \E id \in NetIds, n \in PoolNetInputs \cup {<<8, -1>>} :
           NetworkResource_put(id, n[1], n[2])
           /\ UNCHANGED <<requests, backup_files>>
    \/ \E id \in NetIds : NetworkResource_delete(id)
           /\ UNCHANGED <<requests, backup_files>>
    \/ \E ip \in HostIPs \cup {BadAddr} : HostList_post(ip, NoNet)
           /\ UNCHANGED <<requests, backup_files>>
    \/ \E id \in HostIds, ip \in HostIPs \cup {BadAddr} :
           HostResource_put(id, ip, Absent)
           /\ UNCHANGED <<requests, backup_files>>
    \/ \E nid \in NetIds, r \in WriteRangeInputs :
           DhcpRangeList_post(nid, r[1], r[2], TRUE)
           /\ UNCHANGED <<requests, backup_files>>
    \/ \E id \in RangeIds, nid \in NetIds, r \in WriteRangeInputs :
           DhcpRangeResource_put(id, nid, r[1], r[2], TRUE)
           /\ UNCHANGED <<requests, backup_files>>

SpecWrites == Init /\ [][NextWrites]_vars

\* backups next to the requests that change the database
NextBackup ==
    \/ \E n \in {<<8, 2>>, <<9, AddrBits>>} : NetworkList_post(n[1], n[2])
           /\ UNCHANGED <<requests, backup_files>>
    \/ \E id \in NetIds : NetworkResource_delete(id)
           /\ UNCHANGED <<requests, backup_files>>
    \/ HostList_post(9, NoNet)
           /\ UNCHANGED <<requests, backup_files>>
    \/ \E id \in HostIds : HostResource_delete(id)
           /\ UNCHANGED <<requests, backup_files>>
    \/ \E name \in BackupNames : create_backup(name)
    \/ \E name \in BackupNames : backup_file_damaged(name)
    \/ \E name \in BackupNames \cup {"../ipam.db"} : restore_backup(name)

SpecBackup == Init /\ [][NextBackup]_vars

\* startup.main over its environments and command lines
InitStartup ==
    /\ networks = {}
    /\ hosts = {}
    /\ dhcp_ranges = {}
    /\ requests = [w \in Workers |-> Idle]
    /\ backup_files = [name \in BackupNames |-> Missing]
    /\ \E env \in EnvInputs,
          argv \in {<<>>, <<"gunicorn", "app:app">>, <<"flask", "run">>} :
           last = Resp("main", 0, "", <<env, argv>>, <<>>)

NextStartup ==
    \/ main_should_run_migrations
    \/ main_run_migrations
    \/ main_build_gunicorn_args
    \/ main_exec_fn

SpecStartup == InitStartup /\ [][NextStartup]_vars

\* PUT /dhcp-ranges/<id> served statement by statement by one worker, next to
\* creates of the ranges 8..9 and 10..11 in 8/2; the updates move, grow and
\* shrink them, also into 9/1, whose block contains that of 8/2
InitRangeUpdate ==
    /\ networks = {NetworkRow(1, 8, 2), NetworkRow(2, 9, 1)}
    /\ hosts = {}
    /\ dhcp_ranges = {}
    /\ last = Resp("init", 0, "", <<>>, <<>>)
    /\ requests = [w \in Workers |-> Idle]
    /\ backup_files = [name \in BackupNames |-> Missing]

NextRangeUpdate ==
    \/ \E r \in {<<8, 9>>, <<10, 11>>}, a \in BOOLEAN :
           DhcpRangeList_post(1, r[1], r[2], a)
           /\ UNCHANGED <<requests, backup_files>>
    \/ \E id \in RangeIds, nid \in NetIds, r \in {<<8, 8>>, <<8, 9>>, <<9, 10>>, <<10, 11>>} :
           DhcpRangeResource_put_begin(1, id, nid, r[1], r[2], TRUE)
           /\ UNCHANGED backup_files
    \/ Range_validate(1)
           /\ UNCHANGED backup_files
    \/ DhcpRangeResource_put_commit(1)
           /\ UNCHANGED backup_files

SpecRangeUpdate == InitRangeUpdate /\ [][NextRangeUpdate]_vars

\* Network.total_hosts as a function of (network, cidr)
InitCidr ==
    /\ requests = [w \in Workers |-> Idle]
    /\ backup_files = [name \in BackupNames |-> Missing]
    /\ networks = {}
    /\ hosts = {}
    /\ dhcp_ranges = {}
    /\ \E network \in Addrs, cidr \in Prefixes :
           last = Resp("input", 0, "", <<network, cidr>>, <<>>)

total_hosts_call ==
    /\ last.op = "input"
    /\ last' = Resp("total_hosts", 200, "", last.arg,
                    <<total_hosts([network |-> last.arg[1], cidr |-> last.arg[2]])>>)
    /\ UNCHANGED <<store, requests, backup_files>>

SpecCidr == InitCidr /\ [][total_hosts_call]_vars

\* the validators as functions of the raw records import_networks and
\* import_hosts hand them.  CSV fields are trimmed texts; a JSON is_assigned
\* is whatever value the file holds.
NetRecordInputs ==
    {<<8, 2, Blank>>, <<9, AddrBits, 7>>, <<9, 2, NotANumber>>,
     <<Blank, 2, Blank>>, <<8, Blank, Blank>>, <<8, -1, Blank>>}
CsvHostRecordInputs ==
    {<<9, <<>>, <<>>>>,
     <<9, <<"1">>, <<IsoDateTime, "Z">>>>,
     <<10, <<"Y", "e", "s">>, <<>>>>,
     <<10, <<"o", "f", "f">>, <<IsoDateTime>>>>,
     <<9, <<"m", "a", "y", "b", "e">>, <<>>>>,
     <<10, <<>>, <<"yesterday">>>>,
     <<BadAddr, <<>>, <<>>>>,
     <<Blank, <<"1">>, <<>>>>}
JsonHostRecordInputs ==
    {<<9, JsonNull, JsonNull>>,
     <<9, <<>>, JsonNull>>,
     <<9, JsonTrue, <<IsoDateTime, "Z">>>>,
     <<10, <<" ", "O", "N", " ">>, <<>>>>,
     <<10, <<"n", "o">>, <<IsoDateTime>>>>,
     <<9, JsonNumber, JsonNull>>,
     <<9, <<"m", "a", "y", "b", "e">>, <<>>>>,
     <<10, JsonNull, <<"yesterday">>>>,
     <<BadAddr, JsonNull, JsonNull>>,
     <<Blank, JsonTrue, JsonNull>>}

HostRecordInputs(format_type) ==
    IF format_type = "csv" THEN CsvHostRecordInputs ELSE JsonHostRecordInputs

\* last.msg holds the format and last.arg the raw records
InitImport ==
    /\ requests = [w \in Workers |-> Idle]
    /\ backup_files = [name \in BackupNames |-> Missing]
    /\ networks = {}
    /\ hosts = {}
    /\ dhcp_ranges = {}
    /\ \E format_type \in ImportFormats :
          \/ \E raw_data \in Batches(NetRecordInputs) :
                 last = Resp("import_networks", 200, format_type, raw_data, <<>>)
          \/ \E raw_data \in Batches(HostRecordInputs(format_type)) :
                 last = Resp("import_hosts", 200, format_type, raw_data, <<>>)

validate_networks_data_call ==
    /\ last.op = "import_networks"
    /\ last.code = 200
    /\ last' = Resp("validate_networks_data", 200, last.msg, last.arg,
                    validate_networks_data(last.msg, last.arg))
    /\ UNCHANGED <<store, requests, backup_files>>

validate_hosts_data_call ==
    /\ last.op = "import_hosts"
    /\ last' = Resp("validate_hosts_data", 200, last.msg, last.arg,
                    validate_hosts_data(last.msg, last.arg))
    /\ UNCHANGED <<store, requests, backup_files>>

NextImport == validate_networks_data_call \/ validate_hosts_data_call

SpecImport == InitImport /\ [][NextImport]_vars

\* None in a text column of a stored network
NoText == "#null"

\* JSONExporter.export_networks: one JSON object per network, every field as
\* stored (None becomes null); optional is <<vlan_id, location, description>>
\* of the networks; an object is <<network, cidr, vlan_id, location,
\* description>>
RECURSIVE JSONExporter_export_networks(_, _)
JSONExporter_export_networks(rows, optional) ==
    IF rows = <<>> THEN <<>>
    ELSE << <<Head(rows).network, Head(rows).cidr,
              optional[1], optional[2], optional[3]>> >>
             \o JSONExporter_export_networks(Tail(rows), optional)

\* JSONImporter.import_networks on the data array: network_data.get(key, "")
\* is None for a key that holds null, and None.strip() raises AttributeError;
\* str(None) is the text "None"; the texts of numbers are modelled by the
\* numbers
RECURSIVE JSONImporter_import_networks(_)
JSONImporter_import_networks(networks_data) ==
    IF networks_data = <<>> THEN [raised |-> FALSE, networks |-> <<>>]
    ELSE LET network_data == Head(networks_data)
             rest == JSONImporter_import_networks(Tail(networks_data))
         IN
         IF network_data[4] = NoText \/ network_data[5] = NoText
         THEN [raised |-> TRUE, networks |-> <<>>]
         ELSE IF rest.raised THEN rest
         ELSE [raised |-> FALSE,
               networks |->
                   << <<network_data[1], network_data[2],
                        IF network_data[3] = NoVlan THEN NotANumber
                        ELSE network_data[3]>> >> \o rest.networks]

\* one stored network with its optional fields set or unset
InitJson ==
    /\ requests = [w \in Workers |-> Idle]
    /\ backup_files = [name \in BackupNames |-> Missing]
    /\ hosts = {}
    /\ dhcp_ranges = {}
    /\ \E network \in NetTexts, cidr \in Prefixes :
           networks = {NetworkRow(1, network, cidr)}
    /\ \E vlan_id \in {NoVlan, 7}, location \in {NoText, "", "DC"},
          description \in {NoText, "lab"} :
           last = Resp("stored", 0, "", <<vlan_id, location, description>>, <<>>)

export_networks_call ==
    /\ last.op = "stored"
    /\ last' = Resp("export_networks", 200, "", <<>>,
                    JSONExporter_export_networks(InIdOrder(networks), last.arg))
    /\ UNCHANGED <<store, requests, backup_files>>

\* a raised exception ends the import ("Import failed")
import_networks_call ==
    /\ last.op = "export_networks"
    /\ LET r == JSONImporter_import_networks(last.out) IN
       last' = IF r.raised
               THEN Resp("import_networks", 500, "AttributeError", <<>>, <<>>)
               ELSE Resp("import_networks", 200, "json", r.networks, <<>>)
    /\ UNCHANGED <<store, requests, backup_files>>

NextJson ==
    export_networks_call \/ import_networks_call \/ validate_networks_data_call

SpecJson == InitJson /\ [][NextJson]_vars

\* ================================================================= claims
SetMin(S) == CHOOSE x \in S : \A y \in S : x <= y

\* the usable addresses of a network: strictly between the network address
\* and the broadcast address, and the whole block where the prefix leaves
\* fewer than two host bits
UsableHosts(n) ==
    LET size == Pow2(AddrBits - n.cidr)
        lo == n.network - (n.network % size)
        hi == lo + size - 1
    IN  IF n.cidr <= AddrBits - 2 THEN {a \in Addrs : lo < a /\ a < hi}
        ELSE {a \in Addrs : lo <= a /\ a <= hi}

HostOf(n, a) == \E h \in hosts : h.network_id = n.id /\ h.ip_address = a

InRangeOf(n, a, active) ==
    \E r \in dhcp_ranges :
        /\ r.network_id = n.id
        /\ r.is_active = active
        /\ r.start_ip <= a
        /\ a <= r.end_ip

AvailableSet(n) ==
    {a \in UsableHosts(n) : ~HostOf(n, a) /\ ~InRangeOf(n, a, TRUE)}

\* C1: every next-ip query on a stored network leaves the store unchanged
\* and answers with the lowest usable address of the network that is neither
\* the address of a host of that network nor inside one of its active DHCP
\* ranges; it answers "no available IP" exactly when there is no such address.
C1_NextAvailableLowest ==
    [][(last'.op = "NextAvailableIP_get" /\ last'.code # 404) =>
          LET n == Row(networks, last'.arg[1]) IN
          /\ UNCHANGED store
          /\ IF AvailableSet(n) = {}
             THEN /\ last'.code = 400
                  /\ last'.msg = "No available IP addresses in this network"
             ELSE /\ last'.code = 200
                  /\ last'.out = <<SetMin(AvailableSet(n))>>]_vars

\* C1 witness: a query answered with an address above the first usable one,
\* because a host of the network holds a lower address
C1_Witness ==
    /\ last.op = "NextAvailableIP_get"
    /\ last.code = 200
    /\ \E n \in networks :
          /\ n.id = last.arg[1]
          /\ \E h \in hosts : h.network_id = n.id /\ h.ip_address < last.out[1]
          /\ last.out[1] > SetMin(UsableHosts(n))

\* C2: an answer of next-ip or available-ips never holds an address inside
\* an active DHCP range of the network, and a usable address that is in no
\* active range and is no host of the network is not passed over: next-ip
\* answers with an address not above it and an unlimited available-ips
\* lists it, also when inactive ranges of the network cover it.
C2_PoolExclusionByIsActive ==
    (last.op \in {"NextAvailableIP_get", "AvailableIPs_get"} /\ last.code = 200) =>
        LET n == Row(networks, last.arg[1])
            answered == {last.out[i] : i \in 1..Len(last.out)}
        IN
        /\ \A a \in answered : ~InRangeOf(n, a, TRUE)
        /\ \A a \in UsableHosts(n) :
              (InRangeOf(n, a, FALSE) /\ ~InRangeOf(n, a, TRUE) /\ ~HostOf(n, a)) =>
                  IF last.op = "NextAvailableIP_get"
                  THEN last.out[1] <= a
                  ELSE last.arg[2] = 0 => a \in answered

\* C2 witness: next-ip answers with an address that an inactive range of the
\* network covers, while an active range of the same network is passed over
C2_Witness ==
    /\ last.op = "NextAvailableIP_get"
    /\ last.code = 200
    /\ \E n \in networks :
          /\ n.id = last.arg[1]
          /\ InRangeOf(n, last.out[1], FALSE)
          /\ \E a \in UsableHosts(n) : a < last.out[1] /\ InRangeOf(n, a, TRUE)

HostIPUnique(table) ==
    \A a \in table, b \in table : a.id # b.id => a.ip_address # b.ip_address

HostCreateOps == {"HostList_post", "add_host"}

\* C3: after every step no two stored hosts have the same ip_address,
\* whatever their network_id; a host create (REST or web form) that stores a
\* host stores exactly one, with an address no stored host had, and a POST
\* /hosts answered "IP address already exists" leaves the store unchanged.
C3_HostIpUnique ==
    [][/\ HostIPUnique(hosts')
       /\ (last'.op \in HostCreateOps /\ last'.code \in {201, 302}) =>
              /\ Cardinality(hosts' \ hosts) = 1
              /\ \A h \in hosts' \ hosts : \A e \in hosts :
                     e.ip_address # h.ip_address
       /\ (last'.op = "HostList_post" /\ last'.msg = "IP address already exists") =>
              UNCHANGED store]_vars

\* C3 witness: a POST /hosts was refused as a duplicate while two hosts with
\* different network_id are stored
C3_Witness ==
    /\ last.op = "HostList_post"
    /\ last.msg = "IP address already exists"
    /\ \E a \in hosts, b \in hosts : a.network_id # b.network_id

\* C4 (as claimed): every stored host with a network_id references a stored
\* network whose block contains the host's ip_address.
C4_HostInsideItsNetwork ==
    \A h \in hosts :
        h.network_id # NoNet =>
            \E n \in networks :
                /\ n.id = h.network_id
                /\ n.network - (n.network % Pow2(AddrBits - n.cidr)) <= h.ip_address
                /\ h.ip_address <=
                       n.network - (n.network % Pow2(AddrBits - n.cidr))
                           + Pow2(AddrBits - n.cidr) - 1

RangeOverlap(a, b) == ~(a.end_ip < b.start_ip \/ b.end_ip < a.start_ip)

\* C5: no two active DHCP ranges with the same network_id intersect.
C5_ActiveRangesDisjoint ==
    \A a \in dhcp_ranges, b \in dhcp_ranges :
        (a.id # b.id /\ a.network_id = b.network_id /\ a.is_active /\ b.is_active)
            => ~RangeOverlap(a, b)

\* C5 witness: two active ranges of one network are stored and a further
\* range request was refused as overlapping
C5_Witness ==
    /\ last.msg = "DHCP range overlaps an existing range"
    /\ \E a \in dhcp_ranges, b \in dhcp_ranges :
          a.id # b.id /\ a.network_id = b.network_id /\ a.is_active /\ b.is_active

BlockLo(n) == n.network - (n.network % Pow2(AddrBits - n.cidr))
BlockHi(n) == BlockLo(n) + Pow2(AddrBits - n.cidr) - 1

\* C6 (as claimed): every stored DHCP range of a stored network lies within
\* the usable host range of that network, strictly between the network
\* address and the broadcast address when the prefix leaves two host bits.
C6_RangeInsideUsableHosts ==
    \A r \in dhcp_ranges : \A n \in networks :
        n.id = r.network_id =>
            /\ r.start_ip \in UsableHosts(n)
            /\ r.end_ip \in UsableHosts(n)

RangeWriteOps ==
    {"DhcpRangeList_post", "DhcpRangeResource_put", "NetworkDhcpRanges_post"}

\* C6 (amended): every row a range create or update stores has
\* start_ip <= end_ip and lies within the block of the network it names,
\* network address and broadcast address included; a refused one stores
\* nothing.
C6_RangeInsideBlockAtWrite ==
    [][last'.op \in RangeWriteOps =>
          IF last'.code \in {200, 201}
          THEN /\ Cardinality(dhcp_ranges' \ dhcp_ranges) <= 1
               /\ \E r \in dhcp_ranges' : r.id = last'.out[1]
               /\ \A r \in dhcp_ranges' :
                      r.id = last'.out[1] =>
                          \E n \in networks' :
                              /\ n.id = r.network_id
                              /\ BlockLo(n) <= r.start_ip
                              /\ r.start_ip <= r.end_ip
                              /\ r.end_ip <= BlockHi(n)
               /\ \A r \in dhcp_ranges' : r.id # last'.out[1] => r \in dhcp_ranges
          ELSE UNCHANGED store]_vars

\* C6 witness: a range create stored a range that starts at the network
\* address of its network
C6_Witness ==
    /\ last.op \in {"DhcpRangeList_post", "NetworkDhcpRanges_post"}
    /\ last.code = 201
    /\ \E r \in dhcp_ranges, n \in networks :
          /\ r.id = last.out[1]
          /\ n.id = r.network_id
          /\ n.cidr <= AddrBits - 2
          /\ r.start_ip = BlockLo(n)

DeleteNetworkOps == {"NetworkResource_delete", "delete_network"}

\* C7: a network delete (REST or web form) of a stored network is refused
\* with the assigned-hosts message and changes nothing when some host has
\* that network_id; otherwise it removes the network; in both cases the
\* hosts table is left as it was.
C7_DeleteNetworkGuard ==
    [][(last'.op \in DeleteNetworkOps /\ last'.code # 404) =>
          LET id == last'.arg[1] IN
          /\ hosts' = hosts
          /\ IF \E h \in hosts : h.network_id = id
             THEN /\ last'.msg = "Cannot delete network with assigned hosts"
                  /\ UNCHANGED store
             ELSE /\ last'.msg = ""
                  /\ networks' = {n \in networks : n.id # id}
                  /\ id \in {n.id : n \in networks}]_vars

\* C7 witness: a delete was refused for a network that a host references
C7_Witness ==
    /\ last.op \in DeleteNetworkOps
    /\ last.msg = "Cannot delete network with assigned hosts"
    /\ \E n \in networks, h \in hosts : n.id = last.arg[1] /\ h.network_id = n.id

\* C8 (as claimed): no two stored networks have the same masked base address
\* and the same prefix length.
C8_BasePrefixUnique ==
    \A a \in networks, b \in networks :
        a.id # b.id => ~(BlockLo(a) = BlockLo(b) /\ a.cidr = b.cidr)

NetworkTextUnique(table) ==
    \A a \in table, b \in table : a.id # b.id => a.network # b.network

NetworkCreateOps == {"NetworkList_post", "add_network"}

\* C8 (amended): uniqueness is on the stored network text: after every step
\* no two stored networks have the same network text, whatever their prefix;
\* a network create that stores a network stores one whose text no stored
\* network had, and a POST /networks answered "Network already exists"
\* leaves the store unchanged.
C8_NetworkTextUnique ==
    [][/\ NetworkTextUnique(networks')
       /\ (last'.op \in NetworkCreateOps /\ last'.code \in {201, 302}) =>
              /\ Cardinality(networks' \ networks) = 1
              /\ \A n \in networks' \ networks : \A e \in networks :
                     e.network # n.network
       /\ (last'.op = "NetworkList_post" /\ last'.msg = "Network already exists") =>
              UNCHANGED store]_vars

\* C8 witness: two stored networks with different texts denote the same
\* (base, prefix), and a POST /networks was refused as a duplicate
C8_Witness ==
    /\ last.op = "NetworkList_post"
    /\ last.msg = "Network already exists"
    /\ \E a \in networks, b \in networks :
          a.id # b.id /\ BlockLo(a) = BlockLo(b) /\ a.cidr = b.cidr

\* C9 (as claimed): total_hosts is 2^(AddrBits-p) - 2 for p up to AddrBits-2
\* and 0 for the two longest prefixes.
C9_TotalHostsZeroForLongPrefixes ==
    last.op = "total_hosts" =>
        last.out[1] = IF last.arg[2] <= AddrBits - 2
                      THEN Pow2(AddrBits - last.arg[2]) - 2
                      ELSE 0

\* C9 (amended): total_hosts is 2^(AddrBits-p) - 2 for p up to AddrBits-2,
\* 2 for p = AddrBits-1 (the /31 case) and 1 for p = AddrBits (the /32 case).
C9_TotalHosts ==
    last.op = "total_hosts" =>
        last.out[1] = IF last.arg[2] <= AddrBits - 2
                      THEN Pow2(AddrBits - last.arg[2]) - 2
                      ELSE IF last.arg[2] = AddrBits - 1 THEN 2 ELSE 1

\* C9 witness: total_hosts was computed for a network with the longest prefix
\* and host bits set in a shorter one
C9_Witness ==
    /\ last.op = "total_hosts"
    /\ last.arg[2] = AddrBits
    /\ last.arg[1] % 2 = 1
    /\ last.out[1] = 1

\* C10: a GET of a network reports available_hosts = total_hosts - used_hosts,
\* used_hosts being the number of hosts whose network_id is the network's id
\* and total_hosts the number of its usable addresses; nothing is clamped.
C10_AvailableIsTotalMinusUsed ==
    (last.op = "NetworkResource_get" /\ last.code = 200) =>
        \E n \in networks :
            /\ n.id = last.arg[1]
            /\ last.out[1] = Cardinality(UsableHosts(n))
            /\ last.out[2] = Cardinality({h \in hosts : h.network_id = n.id})
            /\ last.out[3] = last.out[1] - last.out[2]

\* C10 witness: a GET reported a negative available_hosts for a network with
\* a host whose address is outside it
C10_Witness ==
    /\ last.op = "NetworkResource_get"
    /\ last.code = 200
    /\ last.out[3] < 0
    /\ \E n \in networks, h \in hosts :
          /\ n.id = last.arg[1]
          /\ h.network_id = n.id
          /\ h.ip_address \notin UsableHosts(n)

RangeCreateOps == {"DhcpRangeList_post", "NetworkDhcpRanges_post"}

\* the request recorded in last' names a stored network, and its interval is
\* ordered and lies within the block of that network
RangeRequestWellFormed ==
    /\ last'.arg[1] \in {n.id : n \in networks}
    /\ last'.arg[2] \in Addrs
    /\ last'.arg[3] \in Addrs
    /\ last'.arg[2] <= last'.arg[3]
    /\ \A n \in networks :
          n.id = last'.arg[1] =>
              BlockLo(n) <= last'.arg[2] /\ last'.arg[3] <= BlockHi(n)

\* C11: a range create (POST /dhcp-ranges or POST /networks/<id>/dhcp-ranges)
\* whose interval is ordered and inside its network is refused as overlapping
\* exactly when some stored range A of that network has
\* not (A.end < start or A.start > end), a shared end point included;
\* otherwise it stores the range.  Both endpoints answer alike.
C11_OverlapBoundaryInclusive ==
    [][(last'.op \in RangeCreateOps /\ RangeRequestWellFormed) =>
          IF \E A \in dhcp_ranges :
                 /\ A.network_id = last'.arg[1]
                 /\ ~(A.end_ip < last'.arg[2] \/ A.start_ip > last'.arg[3])
          THEN /\ last'.code = 400
               /\ last'.msg = "DHCP range overlaps an existing range"
               /\ UNCHANGED store
          ELSE /\ last'.code = 201
               /\ \E r \in dhcp_ranges' \ dhcp_ranges :
                      /\ r.network_id = last'.arg[1]
                      /\ r.start_ip = last'.arg[2]
                      /\ r.end_ip = last'.arg[3]]_vars

\* C11 witness: POST /networks/<id>/dhcp-ranges refused a range that starts
\* at the end address of a stored range of the network
C11_Witness ==
    /\ last.op = "NetworkDhcpRanges_post"
    /\ last.msg = "DHCP range overlaps an existing range"
    /\ \E A \in dhcp_ranges :
          /\ A.network_id = last.arg[1]
          /\ A.end_ip = last.arg[2]
          /\ A.start_ip < A.end_ip
          /\ last.arg[2] < last.arg[3]

\* C12 (as claimed): a range create whose interval is ordered and inside its
\* network and intersects no active range of that network is accepted,
\* whatever inactive ranges of the network it intersects.
C12_InactiveRangesExempt ==
    [][(last'.op \in RangeCreateOps /\ RangeRequestWellFormed
        /\ ~\E A \in dhcp_ranges :
               /\ A.network_id = last'.arg[1]
               /\ A.is_active
               /\ ~(A.end_ip < last'.arg[2] \/ A.start_ip > last'.arg[3]))
          => last'.code = 201]_vars

\* the networks whose block contains address a
Containing(a) == {n \in networks : BlockLo(n) <= a /\ a <= BlockHi(n)}

\* the id of the first stored network, in storage (id) order, whose block
\* contains a; NoNet when there is none
FirstContaining(a) ==
    IF Containing(a) = {} THEN NoNet
    ELSE SetMin({n.id : n \in Containing(a)})

\* C13: a host created without an explicit network_id (POST /hosts with
\* network_id absent, null or 0, the web form with choice 0, every imported
\* host) gets the id of the first stored network in storage order whose block
\* contains its address, and no network_id when no network contains it; with
\* nested networks the first one wins, not the most specific one.
C13_DetectNetworkFirstMatch ==
    [][/\ (last'.op \in HostCreateOps /\ last'.code \in {201, 302}
            /\ last'.arg[1] = NoNet) =>
              /\ Cardinality(hosts' \ hosts) = 1
              /\ \A h \in hosts' \ hosts :
                     /\ h.network_id = FirstContaining(h.ip_address)
                     /\ last'.out = <<h.id, h.network_id>>
       /\ last'.op = "import_data_hosts" =>
              \A h \in hosts' \ hosts :
                  h.network_id = FirstContaining(h.ip_address)]_vars

\* C13 witness: POST /hosts without network_id stored a host whose address
\* two networks contain, under the one with the lower id although the other
\* one is more specific
C13_Witness ==
    /\ last.op = "HostList_post"
    /\ last.code = 201
    /\ last.arg[1] = NoNet
    /\ \E h \in hosts, a \in networks, b \in networks :
          /\ h.id = last.out[1]
          /\ h.network_id = a.id
          /\ a.id < b.id
          /\ a.cidr < b.cidr
          /\ BlockLo(b) <= h.ip_address
          /\ h.ip_address <= BlockHi(b)

\* C14: PUT /hosts/<id> on a stored host: when the ip_address changes it is
\* refused for a malformed address and for an address another host holds (the
\* host itself left out) and changes nothing then; otherwise the host gets
\* the address, and its network_id is recomputed as in C13 when the address
\* changed and no network_id was supplied, and is left as it was when the
\* address is unchanged and no network_id was supplied.
C14_UpdateHost ==
    [][(last'.op = "HostResource_put" /\ last'.code # 404) =>
          LET id == last'.arg[1]
              ip == last'.arg[2]
              given == last'.arg[3]
              old == CHOOSE h \in hosts : h.id = id
              changed == ip # old.ip_address
          IN
          IF changed /\ ip \notin Addrs
          THEN /\ last'.code = 400
               /\ last'.msg = "Invalid IP address"
               /\ UNCHANGED store
          ELSE IF changed /\ \E e \in hosts : e.id # id /\ e.ip_address = ip
          THEN /\ last'.code = 400
               /\ last'.msg = "IP address already exists"
               /\ UNCHANGED store
          ELSE /\ last'.code = 200
               /\ \E new \in hosts' :
                      /\ hosts' = (hosts \ {old}) \cup {new}
                      /\ new.id = id
                      /\ new.ip_address = ip
                      /\ (changed /\ given \in {Absent, NoNet}) =>
                             new.network_id = FirstContaining(ip)
                      /\ (~changed /\ given = Absent) =>
                             new.network_id = old.network_id
               /\ UNCHANGED <<networks, dhcp_ranges>>]_vars

\* C14 witness: a PUT without network_id moved a host that had a network to an
\* address no stored network contains, which left it without a network, while
\* another host is stored
C14_Witness ==
    /\ last.op = "HostResource_put"
    /\ last.code = 200
    /\ last.arg[3] = Absent
    /\ last.out[2] = NoNet
    /\ networks # {}
    /\ Cardinality(hosts) = 2
    /\ \E h \in hosts : h.id = last.arg[1] /\ Containing(h.ip_address) = {}

ValidateOps == {"validate_networks_data", "validate_hosts_data"}

\* the number the validators give the i-th record: CSV rows count the header
RowNumber(format_type, i) == IF format_type = "csv" THEN i + 1 ELSE i

\* the positions of the records that the errors in last.out name
RejectedRows ==
    {i \in 1..Len(last.arg) :
        \E k \in 1..Len(last.out[2]) :
            last.out[2][k][1] = RowNumber(last.msg, i)}

\* the position in last.arg of the k-th record that no error names
AcceptedRow(k) ==
    CHOOSE i \in 1..Len(last.arg) :
        /\ i \notin RejectedRows
        /\ Cardinality({j \in 1..i : j \notin RejectedRows}) = k

\* the is_assigned and last_seen values of the submitted records that the
\* validators of a format take
GoodIsAssigned(format_type) ==
    {<<"1">>, <<"Y", "e", "s">>, <<"o", "f", "f">>, <<"n", "o">>,
     <<" ", "O", "N", " ">>, JsonNull, JsonTrue, JsonFalse}
        \cup (IF format_type = "csv" THEN {<<>>} ELSE {})
GoodLastSeen == {<<>>, JsonNull, <<IsoDateTime>>, <<IsoDateTime, "Z">>}

\* a record that a validator takes when it is the only one
RecordAcceptable(op, format_type, r) ==
    IF op = "validate_networks_data"
    THEN r[1] \in Addrs /\ r[2] \in Prefixes
    ELSE /\ r[1] \in Addrs
         /\ r[2] \in GoodIsAssigned(format_type)
         /\ r[3] \in GoodLastSeen

\* C16: validate_networks_data and validate_hosts_data (CSV and JSON) answer
\* every list of records with one valid record or one error per input record:
\* the lengths add up, the errors name distinct records in input order, the
\* valid records are the remaining ones in input order, and whether a record
\* is refused does not depend on the records before it.
C16_ValidationPartition ==
    last.op \in ValidateOps =>
        LET raw == last.arg
            valid == last.out[1]
            errors == last.out[2]
        IN
        /\ Len(valid) + Len(errors) = Len(raw)
        /\ Cardinality(RejectedRows) = Len(errors)
        /\ \A k \in 1..Len(errors) :
               /\ \E i \in 1..Len(raw) : errors[k][1] = RowNumber(last.msg, i)
               /\ k > 1 => errors[k - 1][1] < errors[k][1]
        /\ \A k \in 1..Len(valid) : valid[k][1] = raw[AcceptedRow(k)][1]
        /\ \A i \in 1..Len(raw) :
               i \in RejectedRows <=> ~RecordAcceptable(last.op, last.msg, raw[i])

\* C16 witness: a hosts list whose first record is refused and whose last
\* record is taken
C16_Witness ==
    /\ last.op = "validate_hosts_data"
    /\ Len(last.arg) >= 2
    /\ Len(last.out[2]) >= 1
    /\ 1 \in RejectedRows
    /\ Len(last.arg) \notin RejectedRows
    /\ last.out[1][Len(last.out[1])][1] = last.arg[Len(last.arg)][1]

\* the is_assigned values of the submitted records by what the claim says of
\* them: texts that are 1/true/yes/on or 0/false/no/off once trimmed and
\* lowered, blank or absent values, and other texts
ClaimedTrue == {<<"1">>, <<"Y", "e", "s">>, <<" ", "O", "N", " ">>}
ClaimedFalse == {<<"o", "f", "f">>, <<"n", "o">>}
ClaimedUnset == {<<>>, JsonNull}
ClaimedRefused == {<<"m", "a", "y", "b", "e">>, JsonNumber}

\* C17 (as claimed): of the host records whose address and last_seen are in
\* order, one with a true text is returned with is_assigned true, one with a
\* false text with false, one with a blank or absent is_assigned with unset,
\* and one with any other text is refused with the is_assigned error.
C17_IsAssignedNormalized ==
    last.op = "validate_hosts_data" =>
        \A i \in 1..Len(last.arg) :
            (last.arg[i][1] \in Addrs /\ last.arg[i][3] \in GoodLastSeen) =>
                LET value == last.arg[i][2]
                    k == Cardinality({j \in 1..i : j \notin RejectedRows})
                    Returned(v) ==
                        /\ i \notin RejectedRows
                        /\ k <= Len(last.out[1])
                        /\ last.out[1][k][2] = v
                IN
                /\ value \in ClaimedTrue => Returned(JsonTrue)
                /\ value \in ClaimedFalse => Returned(JsonFalse)
                /\ value \in ClaimedUnset => Returned(JsonNull)
                /\ value \in ClaimedRefused =>
                       \E e \in 1..Len(last.out[2]) :
                           last.out[2][e] = <<RowNumber(last.msg, i),
                                              "Invalid Is Assigned value">>

ImportOpNames == {"import_data_networks", "import_data_hosts"}

\* importing a batch into the stored tables and then the same batch again:
\* the second run adds no row and counts 0
ReimportAddsNothing ==
    \A format_type \in ImportFormats :
        /\ \A raw_data \in Batches(ImportNetInputs) :
               LET v == validate_networks_data(format_type, raw_data)
                   first == create_networks_from_data(v[1], 1, networks, 0)
               IN  create_networks_from_data(v[1], 1, first[1], 0) = <<first[1], 0>>
        /\ \A raw_data \in Batches(ImportHostInputs) :
               LET v == validate_hosts_data(format_type, raw_data)
                   first == create_hosts_from_data(v[1], 1, hosts, 0)
               IN  create_hosts_from_data(v[1], 1, first[1], 0) = <<first[1], 0>>

\* C18: an import keeps every stored row as it is, adds only networks whose
\* text and hosts whose ip_address no stored row had, reports as imported the
\* number of rows it added, and never fails on a duplicate; importing the same
\* batch again adds nothing and reports 0.
C18_ImportSkipsDuplicates ==
    /\ []ReimportAddsNothing
    /\ [][last'.op \in ImportOpNames =>
             /\ last'.code = 302
             /\ networks \subseteq networks'
             /\ hosts \subseteq hosts'
             /\ dhcp_ranges' = dhcp_ranges
             /\ \A n \in networks' \ networks : \A e \in networks :
                    e.network # n.network
             /\ \A h \in hosts' \ hosts : \A e \in hosts :
                    e.ip_address # h.ip_address
             /\ last'.out[1] = Cardinality(networks' \ networks)
                                  + Cardinality(hosts' \ hosts)]_vars

\* C18 witness: an import of networks in which every record was valid added
\* nothing and reported 0, the stored networks holding their texts already
C18_Witness ==
    /\ last.op = "import_data_networks"
    /\ last.out = <<0, 0>>
    /\ Cardinality(networks) = 2
    /\ hosts # {}

\* C19 (as claimed): for every stored network, with optional fields set or
\* unset, import_networks reads what export_networks wrote, and
\* validate_networks_data answers with one valid record that has the
\* network text and the cidr of the stored network, and with no error.
C19_JsonRoundTrip ==
    /\ last.op = "import_networks" => last.code = 200
    /\ last.op = "validate_networks_data" =>
           /\ last.out[2] = <<>>
           /\ Len(last.out[1]) = 1
           /\ \E n \in networks :
                  last.out[1][1][1] = n.network /\ last.out[1][1][2] = n.cidr

DeleteHostOps == {"HostResource_delete", "delete_host"}

C21_ConcurrentCreateHostUnique ==
    [][/\ HostIPUnique(hosts')
       /\ \A w \in Workers :
              (/\ requests[w].pc = "commit"
               /\ requests[w].op = "HostList_post"
               /\ requests'[w] = Idle
               /\ \E e \in hosts : e.ip_address = requests[w].ip)
                  => /\ last'.msg = "IntegrityError"
                     /\ UNCHANGED store]_vars

\* C21 witness: a request that had passed the duplicate check lost at the
\* commit, the address being stored by the request of the other worker
C21_Witness ==
    /\ last.op = "HostList_post_commit"
    /\ last.msg = "IntegrityError"
    /\ \E e \in hosts : e.ip_address = last.out[1]

\* C22 (as claimed): two workers creating or updating DHCP ranges side by
\* side never store two active ranges of one network that intersect.
C22_ConcurrentRangesDisjoint ==
    [][\A a \in dhcp_ranges', b \in dhcp_ranges' :
           (/\ a.id # b.id
            /\ a.network_id = b.network_id
            /\ a.is_active
            /\ b.is_active) => ~RangeOverlap(a, b)]_vars

\* C23 (as claimed): no request ends in the raw IntegrityError of the store:
\* an insert or update that meets a UNIQUE constraint (the web forms, which
\* check nothing before they commit) is answered with a handled response.
C23_UniquenessViolationHandled ==
    ~(last.code = 500 /\ last.msg = "IntegrityError")

WriteOps ==
    {"NetworkList_post", "NetworkResource_put", "NetworkResource_delete",
     "HostList_post", "HostResource_put", "DhcpRangeList_post",
     "DhcpRangeResource_put"}

\* C24: a create or update of a network, host or DHCP range, or a network
\* delete, that the REST API refuses with 400 leaves networks, hosts and
\* DHCP ranges as they were; a PUT /networks/<id> refused as a duplicate
\* keeps the stored broadcast_address.
C24_NoPartialWrites ==
    [][(last'.op \in WriteOps /\ last'.code = 400) => UNCHANGED store]_vars

\* C24 witness: a PUT /networks/<id> was refused as a duplicate while hosts
\* and DHCP ranges are stored; the network it named still has the
\* broadcast_address of its own block, which is not that of the other network
C24_Witness ==
    /\ last.op = "NetworkResource_put"
    /\ last.msg = "Network already exists"
    /\ \E a \in networks, b \in networks :
          /\ a.id = last.arg[1]
          /\ b.id # a.id
          /\ a.broadcast_address # b.broadcast_address
          /\ a.broadcast_address = broadcast_address(a.network, a.cidr)
    /\ hosts # {}
    /\ dhcp_ranges # {}

\* C25: create_backup writes a copy of the database as it is into its file
\* and leaves the database alone; nothing else changes a file but damage on
\* disk; restore_backup of a file that exists and passes the integrity check
\* makes the database equal to that copy, whatever the database held; and
\* restore_backup of a missing file, or of a file that fails the integrity
\* check, answers with an error and leaves the database unchanged.
C25_BackupRestoreRoundTrip ==
    [][/\ last'.op = "create_backup" =>
              /\ backup_files'[last'.arg[1]] = BackupFile(store, TRUE)
              /\ UNCHANGED store
       /\ \A name \in BackupNames :
              (/\ backup_files[name].exists
               /\ ~(last'.op \in {"create_backup", "backup_file_damaged"}
                    /\ last'.arg[1] = name))
                  => backup_files'[name] = backup_files[name]
       /\ last'.op = "restore_backup" =>
              IF /\ last'.arg[1] \in BackupNames
                 /\ backup_files[last'.arg[1]].exists
                 /\ backup_files[last'.arg[1]].ok
              THEN /\ last'.code = 200
                   /\ store' = backup_files[last'.arg[1]].content
              ELSE /\ last'.code = 400
                   /\ UNCHANGED store]_vars

\* C25 witness: the database holds again what the restored backup saved, and
\* the other backup, taken in between, shows that it held something else
C25_Witness ==
    /\ last.op = "restore_backup"
    /\ last.code = 200
    /\ store = backup_files[last.arg[1]].content
    /\ networks # {}
    /\ \E other \in BackupNames :
          /\ backup_files[other].exists
          /\ backup_files[other].ok
          /\ backup_files[other].content # store

\* the positions in the list of calls at which a function was called
CallsOf(f) == {i \in 1..Len(last.out) : last.out[i][1] = f}

\* IPAM_RUN_MIGRATIONS is unset, or trimmed and lower-cased is one of 1, true,
\* yes, on
MigrationsWanted ==
    \/ last.arg[1] = Unset
    \/ str_lower(str_strip(last.arg[1]))
           \in {<<"1">>, <<"t", "r", "u", "e">>, <<"y", "e", "s">>, <<"o", "n">>}

OtherRanges(r) ==
    {o \in dhcp_ranges : o.network_id = r.network.id /\ o.id # r.id}

\* the interval of a request is ordered and inside its target network
UpdateWellFormed(r) ==
    /\ r.start_ip <= r.end_ip
    /\ BlockLo(r.network) <= r.start_ip
    /\ r.end_ip <= BlockHi(r.network)

\* C27: when PUT /dhcp-ranges/<id> validates a request whose interval is
\* ordered and inside the target network, it refuses it as overlapping, and
\* changes nothing, exactly when the interval intersects a range of that
\* network other than the range being updated; otherwise the request goes on
\* to its commit, whatever it shares with the range's own stored interval;
\* and the commit stores the requested values in that range and leaves every
\* other range as it was.
C27_UpdateExcludesItself ==
    [][\A w \in Workers :
          /\ (/\ requests[w].pc = "validate"
              /\ requests[w].op = "DhcpRangeResource_put"
              /\ requests'[w] # requests[w]
              /\ UpdateWellFormed(requests[w]))
                 => IF \E o \in OtherRanges(requests[w]) :
                           ~(o.end_ip < requests[w].start_ip
                             \/ o.start_ip > requests[w].end_ip)
                    THEN /\ requests'[w] = Idle
                         /\ last'.code = 400
                         /\ last'.msg = "DHCP range overlaps an existing range"
                         /\ UNCHANGED store
                    ELSE /\ requests'[w] = [requests[w] EXCEPT !.pc = "commit"]
                         /\ UNCHANGED store
          /\ (/\ requests[w].pc = "commit"
              /\ requests[w].op = "DhcpRangeResource_put"
              /\ requests'[w] # requests[w])
                 => /\ last'.code = 200
                    /\ Row(dhcp_ranges', requests[w].id) =
                           RangeRow(requests[w].id, requests[w].network.id,
                                    requests[w].start_ip, requests[w].end_ip,
                                    requests[w].is_active)
                    /\ {o \in dhcp_ranges' : o.id # requests[w].id} =
                           {o \in dhcp_ranges : o.id # requests[w].id}]_vars

\* C27 witness: an update passed validation with an interval that shares an
\* address with the stored interval of its own range without being equal to
\* it, while another range of the target network is stored
C27_Witness ==
    \E w \in Workers :
        /\ requests[w].pc = "commit"
        /\ requests[w].op = "DhcpRangeResource_put"
        /\ OtherRanges(requests[w]) # {}
        /\ \E own \in dhcp_ranges :
              /\ own.id = requests[w].id
              /\ own.network_id = requests[w].network.id
              /\ ~(own.end_ip < requests[w].start_ip
                   \/ own.start_ip > requests[w].end_ip)
              /\ <<own.start_ip, own.end_ip>> #
                     <<requests[w].start_ip, requests[w].end_ip>>

\* the answer of next-ip on network n in the present state, Absent when it
\* finds no address
NextAvailableOf(n) ==
    NextIpLoop(hosts_iter(n.network, n.cidr), used_ips(n.id), active_ranges(n.id))

\* C28: every available-ips answer on a stored network is strictly ascending
\* (so free of duplicates), holds only usable addresses of the network that
\* are no host of it and in none of its active ranges, passes over no such
\* address below its last entry, holds all of them when no limit is given and
\* the first limit of them when a positive limit is given; its first entry
\* is the address next-ip answers with, and it is empty exactly when next-ip
\* finds no address.
C28_ListAvailable ==
    (last.op = "AvailableIPs_get" /\ last.code = 200) =>
        LET n == Row(networks, last.arg[1])
            limit == last.arg[2]
            out == last.out
            answered == {out[i] : i \in 1..Len(out)}
            free == AvailableSet(n)
        IN
        /\ \A i \in 1..Len(out) : \A j \in 1..Len(out) : i < j => out[i] < out[j]
        /\ answered \subseteq free
        /\ \A a \in free \ answered : \A b \in answered : b < a
        /\ limit = 0 => answered = free
        /\ limit > 0 =>
              Len(out) = (IF limit < Cardinality(free) THEN limit ELSE Cardinality(free))
        /\ out # <<>> => out[1] = NextAvailableOf(n)
        /\ out = <<>> <=> NextAvailableOf(n) = Absent

\* C29: the address a next-ip query answers with is the ip_address of no
\* stored host, whatever the network_id of that host, so the duplicate check
\* of a host creation with that address finds nothing and GET /ip/<address>
\* does not report it as "assigned".
C29_AllocationUsable ==
    (last.op = "NextAvailableIP_get" /\ last.code = 200) =>
        /\ \A h \in hosts : h.ip_address # last.out[1]
        /\ IPQuery_status(last.out[1]) # "assigned"

====
